---- MODULE Spec2Model ----
(***************************************************************************)
(* A model of wgpu-core's device LifetimeTracker                           *)
(* (wgpu-core/src/device/life.rs): the queue of active submissions, the    *)
(* suspected resources and their triage, asynchronous buffer mapping and   *)
(* the "submitted work done" closures.                                     *)
(*                                                                         *)
(* The tracker's methods are written as operators on a record `self`       *)
(* holding the fields of LifetimeTracker, so that one method can be        *)
(* applied after another inside one step (a maintenance tick).  The        *)
(* collaborators that life.rs only calls (the kind trackers, the HAL, the  *)
(* buffer's map state set by buffer_map_async / buffer_unmap, the          *)
(* submission path that stamps submission indices) are modelled from their *)
(* documented contracts.                                                   *)
(***************************************************************************)
EXTENDS Integers, Sequences, FiniteSets, TLC

(***************************************************************************)
(* Bounds of the model.                                                    *)
(***************************************************************************)
\* Number of queue submissions made over a behaviour.
MaxSubmissions == 2
\* Number of buffer_map_async requests made over a behaviour.
MaxMaps == 2
\* Number of work-done closures registered over a behaviour.
MaxClosures == 3
\* Number of inputs (submissions, registrations, drops, destructions) made
\* over a behaviour of the specification of all operations.
MaxEvents == 3

(***************************************************************************)
(* The resources of the device.  A resource is named by its tracker index; *)
(* its kind is the ResourceMaps field it is stored in.                     *)
(***************************************************************************)
Buffers == {"b1", "b2"}
Textures == {"t1"}
TextureViews == {"tv1"}
Samplers == {"s1"}
BindGroups == {"bg1"}
BindGroupLayouts == {"bgl1"}
RenderPipelines == {"rp1"}
ComputePipelines == {"cp1"}
PipelineLayouts == {"pl1"}
RenderBundles == {"rb1"}
QuerySets == {"q1"}
StagingBuffers == {"sb1"}

Kinds ==
    { "buffers", "staging_buffers", "textures", "texture_views", "samplers",
      "bind_groups", "bind_group_layouts", "render_pipelines",
      "compute_pipelines", "pipeline_layouts", "render_bundles", "query_sets",
      "destroyed_buffers", "destroyed_textures" }

\* The tracker indices that can occur in each field of a ResourceMaps.
KindMembers ==
    [ buffers |-> Buffers, staging_buffers |-> StagingBuffers,
      textures |-> Textures, texture_views |-> TextureViews,
      samplers |-> Samplers, bind_groups |-> BindGroups,
      bind_group_layouts |-> BindGroupLayouts,
      render_pipelines |-> RenderPipelines,
      compute_pipelines |-> ComputePipelines,
      pipeline_layouts |-> PipelineLayouts, render_bundles |-> RenderBundles,
      query_sets |-> QuerySets, destroyed_buffers |-> Buffers,
      destroyed_textures |-> Textures ]

\* The kinds that have a kind tracker (`trackers.buffers`, `trackers.views`, ...):
\* the ones triage_suspected hands to triage_resources.
TrackedKinds ==
    { "render_bundles", "compute_pipelines", "render_pipelines", "bind_groups",
      "query_sets", "samplers", "texture_views", "textures", "buffers" }

\* Every live resource object, as a (kind, tracker index) pair.
Resources == UNION { KindMembers[k] : k \in Kinds }

\* The kind of a live resource (the Destroyed* kinds hold the remains of a
\* buffer or texture under the same tracker index).
KindOf(index) ==
    CHOOSE k \in Kinds \ {"destroyed_buffers", "destroyed_textures"} :
        index \in KindMembers[k]

\* BindGroup::layout, ComputePipeline::layout, RenderPipeline::layout
layout == [ bg1 |-> "bgl1", cp1 |-> "pl1", rp1 |-> "pl1" ]

\* PipelineLayout::bind_group_layouts
bind_group_layouts == [ pl1 |-> {"bgl1"} ]

\* The resources a render bundle, bind group or texture view refers to when it
\* is created (RenderBundle::used, BindGroup::used, TextureView::parent).
InitialUsed ==
    [ r \in Resources |->
        CASE r = "rb1" -> {"bg1", "b1", "rp1", "q1"}
          [] r = "bg1" -> {"b1", "tv1", "s1"}
          [] r = "tv1" -> {"t1"}
          [] OTHER -> {} ]

\* ResourceMaps::new
ResourceMaps_new == [ k \in Kinds |-> {} ]

\* FastHashMap::insert on one field of a ResourceMaps: the key is the tracker
\* index, so inserting a present index overwrites.
ResourceMaps_insert(maps, kind, index) ==
    [ maps EXCEPT ![kind] = @ \cup {index} ]

\* The ResourceMaps field a TempResource goes to.
TempResourceKind ==
    [ Buffer |-> "buffers", StagingBuffer |-> "staging_buffers",
      DestroyedBuffer |-> "destroyed_buffers", Texture |-> "textures",
      DestroyedTexture |-> "destroyed_textures" ]

TempResource(variant, index) == [ variant |-> variant, index |-> index ]

(***************************************************************************)
(* State.                                                                  *)
(***************************************************************************)
VARIABLES
    \* ---- the fields of LifetimeTracker
    mapped,                     \* Vec<Arc<Buffer>>: map requests not yet triaged
    future_suspected_buffers,   \* Vec<Arc<Buffer>>
    future_suspected_textures,  \* Vec<Arc<Texture>>
    suspected_resources,        \* ResourceMaps
    active,                     \* Vec<ActiveSubmission>
    ready_to_map,               \* Vec<Arc<Buffer>>
    work_done_closures,         \* SmallVec<SubmittedWorkDoneClosure>
    \* ---- the collaborators' state
    submission_index,           \* ResourceInfo::submission_index of each resource
    map_state,                  \* Buffer::map_state of each buffer
    user_holds,                 \* whether its owner outside the tracker (the user; the
                                \* queue's pending writes for a staging buffer) still
                                \* holds a handle to the resource
    tracked,                    \* whether the kind tracker still holds the resource
    used,                       \* the strong references a resource holds to others
    destroyed_index,            \* DestroyedBuffer/DestroyedTexture::submission_index
    active_submission_index,    \* Device::active_submission_index
    \* ---- history kept for the properties
    clock,                      \* number of registrations made so far
    registry,                   \* what each registration was, in order
    log,                        \* the registrations the tracker returned, in order
    landed                      \* how often each encoder was landed and released

tracker_vars ==
    << mapped, future_suspected_buffers, future_suspected_textures,
       suspected_resources, active, ready_to_map, work_done_closures >>

world_vars ==
    << submission_index, map_state, user_holds, tracked, used, destroyed_index,
       active_submission_index >>

history_vars == << clock, registry, log, landed >>

vars == << tracker_vars, world_vars, history_vars >>

\* The LifetimeTracker as one value.
Self ==
    [ mapped |-> mapped,
      future_suspected_buffers |-> future_suspected_buffers,
      future_suspected_textures |-> future_suspected_textures,
      suspected_resources |-> suspected_resources,
      active |-> active,
      ready_to_map |-> ready_to_map,
      work_done_closures |-> work_done_closures ]

\* LifetimeTracker::new
LifetimeTracker_new ==
    [ mapped |-> <<>>,
      future_suspected_buffers |-> <<>>,
      future_suspected_textures |-> <<>>,
      suspected_resources |-> ResourceMaps_new,
      active |-> <<>>,
      ready_to_map |-> <<>>,
      work_done_closures |-> <<>> ]

\* The step leaves the tracker as `self`.
Becomes(self) ==
    /\ mapped' = self.mapped
    /\ future_suspected_buffers' = self.future_suspected_buffers
    /\ future_suspected_textures' = self.future_suspected_textures
    /\ suspected_resources' = self.suspected_resources
    /\ active' = self.active
    /\ ready_to_map' = self.ready_to_map
    /\ work_done_closures' = self.work_done_closures

(***************************************************************************)
(* Sequence helpers.                                                       *)
(***************************************************************************)
Range(s) == { s[i] : i \in DOMAIN s }

\* Iterator::position: the first position whose element satisfies Test, 0 for None.
Position(s, Test(_)) ==
    IF \E i \in DOMAIN s : Test(s[i])
    THEN CHOOSE i \in DOMAIN s : Test(s[i]) /\ \A j \in 1..(i - 1) : ~Test(s[j])
    ELSE 0

\* The elements of a set as a sequence, in some fixed order (a hash map's
\* iteration order).
RECURSIVE SetToSeq(_)
SetToSeq(S) ==
    IF S = {} THEN <<>>
    ELSE LET x == CHOOSE y \in S : TRUE IN <<x>> \o SetToSeq(S \ {x})

\* The concatenation of a sequence of sequences.
RECURSIVE Flatten(_)
Flatten(ss) == IF ss = <<>> THEN <<>> ELSE Head(ss) \o Flatten(Tail(ss))

(***************************************************************************)
(* LifetimeTracker: submissions and closures.                              *)
(***************************************************************************)
\* LifetimeTracker::queue_empty
queue_empty(self) == self.active = <<>>

\* The loop of track_submission over temp_resources.
RECURSIVE insert_temp_resources(_, _)
insert_temp_resources(last_resources, temp_resources) ==
    IF temp_resources = <<>> THEN last_resources
    ELSE LET res == Head(temp_resources) IN
         insert_temp_resources(
             ResourceMaps_insert(last_resources, TempResourceKind[res.variant],
                                 res.index),
             Tail(temp_resources))

\* The ActiveSubmission that track_submission builds.
ActiveSubmission(index, last_resources, encoders) ==
    [ index |-> index,
      last_resources |-> last_resources,
      mapped |-> <<>>,
      encoders |-> encoders,
      work_done_closures |-> <<>> ]

\* Variant of track_submission that refuses an index that is not greater
\* than the index of the last active submission.
track_submission_checked(self, index, temp_resources, encoders) ==
    IF self.active # <<>> /\ index <= self.active[Len(self.active)].index
    THEN self
    ELSE [ self EXCEPT !.active =
             Append(@, ActiveSubmission(
                           index,
                           insert_temp_resources(ResourceMaps_new, temp_resources),
                           encoders)) ]

\* Variant of track_submission that puts the new submission first.
track_submission_front(self, index, temp_resources, encoders) ==
    [ self EXCEPT !.active =
        << ActiveSubmission(
               index,
               insert_temp_resources(ResourceMaps_new, temp_resources),
               encoders) >> \o @ ]

\* LifetimeTracker::track_submission
track_submission(self, index, temp_resources, encoders) ==
    [ self EXCEPT !.active =
        Append(@, ActiveSubmission(
                      index,
                      insert_temp_resources(ResourceMaps_new, temp_resources),
                      encoders)) ]

\* LifetimeTracker::post_submit
post_submit(self) ==
    [ self EXCEPT
        !.suspected_resources =
            [ @ EXCEPT
                !.buffers = @ \cup Range(self.future_suspected_buffers),
                !.textures = @ \cup Range(self.future_suspected_textures) ],
        !.future_suspected_buffers = <<>>,
        !.future_suspected_textures = <<>> ]

\* Variant of map that queues nothing.
map_forgotten(self, value) == self

\* LifetimeTracker::map
map(self, value) == [ self EXCEPT !.mapped = Append(@, value) ]

\* Variant of done_count that keeps the submission with index last_done.
done_count_exclusive(self, last_done) ==
    LET p == Position(self.active, LAMBDA a : a.index >= last_done) IN
    IF p = 0 THEN Len(self.active) ELSE p - 1

\* The number of leading entries of `active` that triage_submissions drains.
done_count(self, last_done) ==
    LET p == Position(self.active, LAMBDA a : a.index > last_done) IN
    IF p = 0 THEN Len(self.active) ELSE p - 1

\* Variant of triage_submissions that returns the tracker's own closures
\* after those of the submissions.
triage_submissions_own_last(self, last_done) ==
    LET n == done_count(self, last_done)
        done == SubSeq(self.active, 1, n)
    IN  [ self |->
            [ self EXCEPT
                !.work_done_closures = <<>>,
                !.ready_to_map =
                    @ \o Flatten([ i \in 1..n |-> done[i].mapped ]),
                !.active = SubSeq(@, n + 1, Len(@)) ],
          work_done_closures |->
            Flatten([ i \in 1..n |-> done[i].work_done_closures ])
                \o self.work_done_closures,
          released |-> Flatten([ i \in 1..n |-> done[i].encoders ]),
          dropped |-> [ i \in 1..n |-> done[i].last_resources ] ]

\* Variant of triage_submissions that drops the mapped lists of the
\* submissions it drains.
triage_submissions_drops_mapped(self, last_done) ==
    LET n == done_count(self, last_done)
        done == SubSeq(self.active, 1, n)
    IN  [ self |->
            [ self EXCEPT
                !.work_done_closures = <<>>,
                !.active = SubSeq(@, n + 1, Len(@)) ],
          work_done_closures |->
            self.work_done_closures
                \o Flatten([ i \in 1..n |-> done[i].work_done_closures ]),
          released |-> Flatten([ i \in 1..n |-> done[i].encoders ]),
          dropped |-> [ i \in 1..n |-> done[i].last_resources ] ]

\* LifetimeTracker::triage_submissions.  Returns the tracker, the closures to
\* run and the encoders landed and released to the command allocator.
triage_submissions(self, last_done) ==
    LET n == done_count(self, last_done)
        done == SubSeq(self.active, 1, n)
    IN  [ self |->
            [ self EXCEPT
                !.work_done_closures = <<>>,
                !.ready_to_map =
                    @ \o Flatten([ i \in 1..n |-> done[i].mapped ]),
                !.active = SubSeq(@, n + 1, Len(@)) ],
          work_done_closures |->
            self.work_done_closures
                \o Flatten([ i \in 1..n |-> done[i].work_done_closures ]),
          released |-> Flatten([ i \in 1..n |-> done[i].encoders ]),
          dropped |-> [ i \in 1..n |-> done[i].last_resources ] ]

\* Variant of schedule_resource_destruction that falls back on the last
\* active submission when none has the index.
schedule_resource_destruction_fallback(self, temp_resource, last_submit_index) ==
    LET found == Position(self.active, LAMBDA a : a.index = last_submit_index)
        p == IF found = 0 THEN Len(self.active) ELSE found
    IN
    IF p = 0 THEN self
    ELSE [ self EXCEPT !.active[p].last_resources =
             ResourceMaps_insert(@, TempResourceKind[temp_resource.variant],
                                 temp_resource.index) ]

\* LifetimeTracker::schedule_resource_destruction
schedule_resource_destruction(self, temp_resource, last_submit_index) ==
    LET p == Position(self.active, LAMBDA a : a.index = last_submit_index) IN
    IF p = 0 THEN self
    ELSE [ self EXCEPT !.active[p].last_resources =
             ResourceMaps_insert(@, TempResourceKind[temp_resource.variant],
                                 temp_resource.index) ]

\* Variant of add_work_done_closure that attaches to the first active
\* submission.
add_work_done_closure_first(self, closure) ==
    IF self.active # <<>>
    THEN [ self EXCEPT !.active[1].work_done_closures = Append(@, closure) ]
    ELSE [ self EXCEPT !.work_done_closures = Append(@, closure) ]

\* Variant of add_work_done_closure that never attaches to a submission.
add_work_done_closure_unattached(self, closure) ==
    [ self EXCEPT !.work_done_closures = Append(@, closure) ]

\* LifetimeTracker::add_work_done_closure
add_work_done_closure(self, closure) ==
    IF self.active # <<>>
    THEN [ self EXCEPT !.active[Len(self.active)].work_done_closures =
             Append(@, closure) ]
    ELSE [ self EXCEPT !.work_done_closures = Append(@, closure) ]

(***************************************************************************)
(* Buffer mapping.                                                         *)
(***************************************************************************)
\* resource::BufferMapState
Idle == [ tag |-> "Idle" ]
Waiting(pending) == [ tag |-> "Waiting", pending |-> pending ]
Active(ptr, range, host) ==
    [ tag |-> "Active", ptr |-> ptr, range |-> range, host |-> host ]

\* resource::BufferPendingMapping { range, op: BufferMapOperation { host, callback } }
BufferPendingMapping(start, end, host, callback) ==
    [ range |-> [ start |-> start, end |-> end ],
      op |-> [ host |-> host, callback |-> callback ] ]

\* Whether anything outside the LifetimeTracker and the kind tracker still
\* refers to the resource: the user's handle, or a resource that uses it.
ExternallyHeld(world, index) ==
    \/ index \in world.user_holds
    \/ \E p \in Resources : index \in world.used[p]

\* ResourceTracker::remove_abandoned: true iff the tracker held the last
\* external reference, and then the tracker has released its own.
remove_abandoned(world, index) ==
    IF index \in world.tracked /\ ~ExternallyHeld(world, index)
    THEN [ is_removed |-> TRUE,
           world |-> [ world EXCEPT !.tracked = @ \ {index} ] ]
    ELSE [ is_removed |-> FALSE, world |-> world ]

\* super::map_buffer, the HAL mapping: fails for the buffers of hal_fails.
map_buffer(buffer, offset, size, host, hal_fails) ==
    IF buffer \in hal_fails
    THEN [ ok |-> FALSE, err |-> "MapError" ]
    ELSE [ ok |-> TRUE, ptr |-> <<buffer, offset>> ]

\* LifetimeTracker::triage_mapped
RECURSIVE triage_mapped_loop(_, _, _)
triage_mapped_loop(self, queue, world) ==
    IF queue = <<>> THEN self
    ELSE LET buffer == Head(queue)
             submit_index == world.submission_index[buffer]
             p == Position(self.active, LAMBDA a : a.index = submit_index)
         IN  triage_mapped_loop(
                 IF p = 0
                 THEN [ self EXCEPT !.ready_to_map = Append(@, buffer) ]
                 ELSE [ self EXCEPT !.active[p].mapped = Append(@, buffer) ],
                 Tail(queue), world)

\* Variant of triage_mapped that takes every buffer for ready to map.
triage_mapped_all_ready(self, world) ==
    [ self EXCEPT !.mapped = <<>>, !.ready_to_map = @ \o self.mapped ]

triage_mapped(self, world) ==
    IF self.mapped = <<>> THEN self
    ELSE triage_mapped_loop([ self EXCEPT !.mapped = <<>> ], self.mapped, world)

\* Variant of map_pending that collects no callback when the HAL fails.
map_pending_silent(st, buffer, pending_mapping, hal_fails) ==
    LET host == pending_mapping.op.host
        size == pending_mapping.range.end - pending_mapping.range.start
        res == map_buffer(buffer, pending_mapping.range.start, size, host,
                          hal_fails)
    IN
    IF pending_mapping.range.start # pending_mapping.range.end /\ ~res.ok
    THEN [ st EXCEPT
             !.world.map_state[buffer] = Idle,
             !.hal_calls = Append(@, buffer) ]
    ELSE [ st EXCEPT
             !.world.map_state[buffer] =
                 Active(IF pending_mapping.range.start # pending_mapping.range.end
                        THEN res.ptr ELSE "dangling",
                        pending_mapping.range, host),
             !.pending_callbacks = Append(@, << pending_mapping.op, "Ok" >>) ]

\* Variant of map_pending that hands a range of length zero to the HAL too.
map_pending_always_hal(st, buffer, pending_mapping, hal_fails) ==
    LET host == pending_mapping.op.host
        size == pending_mapping.range.end - pending_mapping.range.start
        res == map_buffer(buffer, pending_mapping.range.start, size, host,
                          hal_fails)
    IN  IF res.ok
        THEN [ st EXCEPT
                 !.world.map_state[buffer] =
                     Active(res.ptr, pending_mapping.range, host),
                 !.hal_calls = Append(@, buffer),
                 !.pending_callbacks =
                     Append(@, << pending_mapping.op, "Ok" >>) ]
        ELSE [ st EXCEPT
                 !.world.map_state[buffer] = Idle,
                 !.hal_calls = Append(@, buffer),
                 !.pending_callbacks =
                     Append(@, << pending_mapping.op, res.err >>) ]

\* Variant of map_pending that leaves the buffer waiting when the HAL fails.
map_pending_still_waiting(st, buffer, pending_mapping, hal_fails) ==
    LET host == pending_mapping.op.host
        size == pending_mapping.range.end - pending_mapping.range.start
        res == map_buffer(buffer, pending_mapping.range.start, size, host,
                          hal_fails)
    IN
    IF pending_mapping.range.start # pending_mapping.range.end /\ ~res.ok
    THEN [ st EXCEPT
             !.hal_calls = Append(@, buffer),
             !.pending_callbacks =
                 Append(@, << pending_mapping.op, res.err >>) ]
    ELSE [ st EXCEPT
             !.world.map_state[buffer] =
                 Active(IF pending_mapping.range.start # pending_mapping.range.end
                        THEN res.ptr ELSE "dangling",
                        pending_mapping.range, host),
             !.hal_calls =
                 IF pending_mapping.range.start # pending_mapping.range.end
                 THEN Append(@, buffer) ELSE @,
             !.pending_callbacks = Append(@, << pending_mapping.op, "Ok" >>) ]

\* The tail of one iteration of the loop of handle_mapping: the pending
\* mapping is carried out and its callback collected.
map_pending(st, buffer, pending_mapping, hal_fails) ==
    LET host == pending_mapping.op.host
        size == pending_mapping.range.end - pending_mapping.range.start
    IN
    IF pending_mapping.range.start # pending_mapping.range.end
    THEN LET res == map_buffer(buffer, pending_mapping.range.start, size, host,
                               hal_fails)
         IN  IF res.ok
             THEN [ st EXCEPT
                      !.world.map_state[buffer] =
                          Active(res.ptr,
                                 [ start |-> pending_mapping.range.start,
                                   end |-> pending_mapping.range.start + size ],
                                 host),
                      !.hal_calls = Append(@, buffer),
                      !.pending_callbacks =
                          Append(@, << pending_mapping.op, "Ok" >>) ]
             ELSE [ st EXCEPT
                      !.world.map_state[buffer] = Idle,
                      !.hal_calls = Append(@, buffer),
                      !.pending_callbacks =
                          Append(@, << pending_mapping.op, res.err >>) ]
    ELSE [ st EXCEPT
             !.world.map_state[buffer] =
                 Active("dangling", pending_mapping.range,
                        pending_mapping.op.host),
             !.pending_callbacks = Append(@, << pending_mapping.op, "Ok" >>) ]

\* Variant of handle_mapping_one that leaves the map state of an abandoned
\* buffer as it is.
handle_mapping_one_abandoned_kept(st, buffer, hal_fails) ==
    LET abandoned == remove_abandoned(st.world, buffer)
        mapping == st.world.map_state[buffer]
    IN
    IF abandoned.is_removed
    THEN [ st EXCEPT
             !.world = abandoned.world,
             !.abandoned = Append(@, buffer) ]
    ELSE
    CASE mapping.tag = "Waiting" ->
           map_pending(st, buffer, mapping.pending, hal_fails)
      [] mapping.tag = "Idle" ->
           [ st EXCEPT !.world.map_state[buffer] = Idle ]
      [] mapping.tag = "Active" ->
           [ st EXCEPT !.world.map_state[buffer] = mapping ]
      [] OTHER -> [ st EXCEPT !.panicked = TRUE ]

\* Variant of handle_mapping_one that does not put back the state of a
\* buffer it finds mapped.
handle_mapping_one_active_lost(st, buffer, hal_fails) ==
    LET abandoned == remove_abandoned(st.world, buffer)
        mapping == st.world.map_state[buffer]
    IN
    IF abandoned.is_removed
    THEN [ st EXCEPT
             !.world = [ abandoned.world EXCEPT !.map_state[buffer] = Idle ],
             !.abandoned = Append(@, buffer) ]
    ELSE
    CASE mapping.tag = "Waiting" ->
           map_pending(st, buffer, mapping.pending, hal_fails)
      [] mapping.tag \in {"Idle", "Active"} ->
           [ st EXCEPT !.world.map_state[buffer] = Idle ]
      [] OTHER -> [ st EXCEPT !.panicked = TRUE ]

\* One iteration of the loop of handle_mapping, for the buffer drained from
\* ready_to_map.  `st` holds the world, the callbacks collected so far and the
\* buffers handed to the HAL so far.
handle_mapping_one(st, buffer, hal_fails) ==
    LET abandoned == remove_abandoned(st.world, buffer)
        mapping == st.world.map_state[buffer]
    IN
    IF abandoned.is_removed
    THEN [ st EXCEPT
             !.world = [ abandoned.world EXCEPT !.map_state[buffer] = Idle ],
             !.abandoned = Append(@, buffer) ]
    ELSE
    CASE mapping.tag = "Waiting" ->
           map_pending(st, buffer, mapping.pending, hal_fails)
      [] mapping.tag = "Idle" ->
           [ st EXCEPT !.world.map_state[buffer] = Idle ]
      [] mapping.tag = "Active" ->
           [ st EXCEPT !.world.map_state[buffer] = mapping ]
      [] OTHER -> [ st EXCEPT !.panicked = TRUE ]

RECURSIVE handle_mapping_loop(_, _, _)
handle_mapping_loop(st, queue, hal_fails) ==
    IF queue = <<>> THEN st
    ELSE handle_mapping_loop(handle_mapping_one(st, Head(queue), hal_fails),
                             Tail(queue), hal_fails)

\* Variant of handle_mapping that iterates over ready_to_map without draining
\* it.
handle_mapping_undrained(self, world, hal_fails) ==
    LET st == handle_mapping_loop(
                  [ world |-> world, pending_callbacks |-> <<>>,
                    hal_calls |-> <<>>, abandoned |-> <<>>,
                    panicked |-> FALSE ],
                  self.ready_to_map, hal_fails)
    IN  [ self |-> self,
          world |-> st.world,
          pending_callbacks |-> st.pending_callbacks,
          hal_calls |-> st.hal_calls,
          abandoned |-> st.abandoned,
          panicked |-> st.panicked ]

\* LifetimeTracker::handle_mapping.  Returns the tracker, the world (map
\* states, kind tracker), the callbacks to send, the buffers handed to the HAL
\* and the buffers found abandoned.
handle_mapping(self, world, hal_fails) ==
    LET st == handle_mapping_loop(
                  [ world |-> world, pending_callbacks |-> <<>>,
                    hal_calls |-> <<>>, abandoned |-> <<>>,
                    panicked |-> FALSE ],
                  self.ready_to_map, hal_fails)
    IN  [ self |-> [ self EXCEPT !.ready_to_map = <<>> ],
          world |-> st.world,
          pending_callbacks |-> st.pending_callbacks,
          hal_calls |-> st.hal_calls,
          abandoned |-> st.abandoned,
          panicked |-> st.panicked ]

(***************************************************************************)
(* Triage of the suspected resources.                                      *)
(***************************************************************************)
\* The last strong reference to each of `indices` is dropped: the resources are
\* gone, and with them the references they held to others.  (The lists of
\* a render bundle or bind group are drained before, so this is a texture
\* view letting go of its texture.)
release(world, indices) ==
    [ world EXCEPT !.used =
        [ r \in DOMAIN @ |->
            IF r \in indices /\ KindOf(r) = "texture_views" THEN {} ELSE @[r] ] ]

\* Variant of triage_resources that enters an abandoned resource in the
\* last_resources of its submission and of every later one.
triage_resources_spread(self, world, kind) ==
    LET resources_map == self.suspected_resources[kind]
        removed_resources ==
            { index \in resources_map : remove_abandoned(world, index).is_removed }
        target(index) ==
            Position(self.active,
                     LAMBDA a : a.index = world.submission_index[index])
    IN  [ self |->
            [ self EXCEPT
                !.suspected_resources[kind] = @ \ removed_resources,
                !.active =
                    [ p \in DOMAIN self.active |->
                        [ self.active[p] EXCEPT !.last_resources[kind] =
                            @ \cup { index \in removed_resources :
                                        /\ target(index) # 0
                                        /\ target(index) <= p } ] ] ],
          world |->
            release([ world EXCEPT !.tracked = @ \ removed_resources ],
                    { index \in removed_resources : target(index) = 0 }),
          removed_resources |-> removed_resources ]

\* Variant of triage_resources whose retain keeps every entry of the map.
triage_resources_retained(self, world, kind) ==
    LET resources_map == self.suspected_resources[kind]
        removed_resources ==
            { index \in resources_map : remove_abandoned(world, index).is_removed }
        target(index) ==
            Position(self.active,
                     LAMBDA a : a.index = world.submission_index[index])
    IN  [ self |->
            [ self EXCEPT
                !.active =
                    [ p \in DOMAIN self.active |->
                        [ self.active[p] EXCEPT !.last_resources[kind] =
                            @ \cup { index \in removed_resources :
                                        target(index) = p } ] ] ],
          world |->
            release([ world EXCEPT !.tracked = @ \ removed_resources ],
                    { index \in removed_resources : target(index) = 0 }),
          removed_resources |-> removed_resources ]

\* LifetimeTracker::triage_resources on suspected_resources[kind]: each
\* resource of the map is put to the kind tracker once; an abandoned one
\* leaves the map and, if the submission of its submission index is active,
\* enters that submission's last_resources.  Returns the tracker, the world
\* and the removed resources.
triage_resources(self, world, kind) ==
    LET resources_map == self.suspected_resources[kind]
        removed_resources ==
            { index \in resources_map : remove_abandoned(world, index).is_removed }
        target(index) ==
            Position(self.active,
                     LAMBDA a : a.index = world.submission_index[index])
    IN  [ self |->
            [ self EXCEPT
                !.suspected_resources[kind] = @ \ removed_resources,
                !.active =
                    [ p \in DOMAIN self.active |->
                        [ self.active[p] EXCEPT !.last_resources[kind] =
                            @ \cup { index \in removed_resources :
                                        target(index) = p } ] ] ],
          world |->
            release([ world EXCEPT !.tracked = @ \ removed_resources ],
                    { index \in removed_resources : target(index) = 0 }),
          removed_resources |-> removed_resources ]

\* drain_resources on the `used` lists of the removed resources: their
\* members of `kind` enter suspected_resources[kind].
Drained(world, removed_resources, kind) ==
    UNION { world.used[r] : r \in removed_resources } \cap KindMembers[kind]

suspect(maps, kind, indices) == [ maps EXCEPT ![kind] = @ \cup indices ]

RECURSIVE suspect_kinds(_, _, _, _)
suspect_kinds(maps, world, removed_resources, kinds) ==
    IF kinds = <<>> THEN maps
    ELSE suspect_kinds(
             suspect(maps, Head(kinds),
                     Drained(world, removed_resources, Head(kinds))),
             world, removed_resources, Tail(kinds))

\* The `used` lists once those of the removed resources are drained.
drain_resources(world, removed_resources) ==
    [ world EXCEPT !.used =
        [ r \in DOMAIN @ |-> IF r \in removed_resources THEN {} ELSE @[r] ] ]

\* LifetimeTracker::triage_suspected_render_bundles
triage_suspected_render_bundles(st) ==
    LET t == triage_resources(st.self, st.world, "render_bundles") IN
    [ self |->
        [ t.self EXCEPT !.suspected_resources =
            suspect_kinds(@, t.world, t.removed_resources,
                          << "buffers", "textures", "bind_groups",
                             "render_pipelines", "query_sets" >>) ],
      world |-> drain_resources(t.world, t.removed_resources) ]

\* LifetimeTracker::triage_suspected_bind_groups
triage_suspected_bind_groups(st) ==
    LET t == triage_resources(st.self, st.world, "bind_groups") IN
    [ self |->
        [ t.self EXCEPT !.suspected_resources =
            suspect(suspect_kinds(@, t.world, t.removed_resources,
                                  << "buffers", "textures", "texture_views",
                                     "samplers" >>),
                    "bind_group_layouts",
                    { layout[r] : r \in t.removed_resources }) ],
      world |-> drain_resources(t.world, t.removed_resources) ]

\* The triage of a kind that entrains nothing: triage_suspected_texture_views,
\* _textures, _samplers, _buffers, _query_sets.  (The pruning of the weak
\* back references of the surviving textures and buffers changes nothing
\* the tracker holds.)
triage_suspected_leaf(st, kind) ==
    LET t == triage_resources(st.self, st.world, kind) IN
    [ self |-> t.self, world |-> t.world ]

triage_suspected_texture_views(st) == triage_suspected_leaf(st, "texture_views")
triage_suspected_textures(st) == triage_suspected_leaf(st, "textures")
triage_suspected_samplers(st) == triage_suspected_leaf(st, "samplers")
triage_suspected_buffers(st) == triage_suspected_leaf(st, "buffers")
triage_suspected_query_sets(st) == triage_suspected_leaf(st, "query_sets")

\* Variant of triage_suspected_destroyed that drops every entry it drains.
triage_suspected_destroyed_dropped(st, kind) ==
    [ st EXCEPT !.self.suspected_resources[kind] = {} ]

\* The loop of triage_suspected_destroyed_buffers / _destroyed_textures.
triage_suspected_destroyed(st, kind) ==
    LET drained == st.self.suspected_resources[kind]
        target(id) ==
            Position(st.self.active,
                     LAMBDA a : a.index = st.world.destroyed_index[id])
    IN  [ st EXCEPT
            !.self.suspected_resources[kind] = {},
            !.self.active =
                [ p \in DOMAIN st.self.active |->
                    [ st.self.active[p] EXCEPT !.last_resources[kind] =
                        @ \cup { id \in drained : target(id) = p } ] ] ]

triage_suspected_destroyed_buffers(st) ==
    triage_suspected_destroyed(st, "destroyed_buffers")

triage_suspected_destroyed_textures(st) ==
    triage_suspected_destroyed(st, "destroyed_textures")

\* triage_suspected_compute_pipelines, triage_suspected_render_pipelines: the
\* layout of each removed pipeline becomes suspected.
triage_suspected_pipelines(st, kind) ==
    LET t == triage_resources(st.self, st.world, kind) IN
    [ self |->
        [ t.self EXCEPT !.suspected_resources =
            suspect(@, "pipeline_layouts",
                    { layout[r] : r \in t.removed_resources }) ],
      world |-> t.world ]

triage_suspected_compute_pipelines(st) ==
    triage_suspected_pipelines(st, "compute_pipelines")

triage_suspected_render_pipelines(st) ==
    triage_suspected_pipelines(st, "render_pipelines")

\* LifetimeTracker::triage_suspected_pipeline_layouts
triage_suspected_pipeline_layouts(st) ==
    LET removed_resources == st.self.suspected_resources.pipeline_layouts IN
    [ st EXCEPT !.self.suspected_resources =
        suspect([ @ EXCEPT !.pipeline_layouts = {} ], "bind_group_layouts",
                UNION { bind_group_layouts[r] : r \in removed_resources }) ]

\* Variant of triage_suspected_bind_group_layouts that clears nothing.
triage_suspected_bind_group_layouts_kept(st) == st

\* LifetimeTracker::triage_suspected_bind_group_layouts
triage_suspected_bind_group_layouts(st) ==
    [ st EXCEPT !.self.suspected_resources.bind_group_layouts = {} ]

\* LifetimeTracker::triage_suspected_staging_buffers
triage_suspected_staging_buffers(st) ==
    [ st EXCEPT !.self.suspected_resources.staging_buffers = {} ]

\* Variant of triage_suspected that triages the bind groups before the
\* render bundles.
triage_suspected_bind_groups_first(self, world) ==
    LET s0 == [ self |-> self, world |-> world ]
        s1 == triage_suspected_bind_groups(s0)
        s2 == triage_suspected_render_bundles(s1)
        s3 == triage_suspected_compute_pipelines(s2)
        s4 == triage_suspected_render_pipelines(s3)
        s5 == triage_suspected_pipeline_layouts(s4)
        s6 == triage_suspected_bind_group_layouts(s5)
        s7 == triage_suspected_query_sets(s6)
        s8 == triage_suspected_samplers(s7)
        s9 == triage_suspected_staging_buffers(s8)
        s10 == triage_suspected_texture_views(s9)
        s11 == triage_suspected_textures(s10)
        s12 == triage_suspected_buffers(s11)
        s13 == triage_suspected_destroyed_buffers(s12)
    IN  triage_suspected_destroyed_textures(s13)

\* LifetimeTracker::triage_suspected.  Returns the tracker and the world.
triage_suspected(self, world) ==
    LET s0 == [ self |-> self, world |-> world ]
        s1 == triage_suspected_render_bundles(s0)
        s2 == triage_suspected_compute_pipelines(s1)
        s3 == triage_suspected_render_pipelines(s2)
        s4 == triage_suspected_bind_groups(s3)
        s5 == triage_suspected_pipeline_layouts(s4)
        s6 == triage_suspected_bind_group_layouts(s5)
        s7 == triage_suspected_query_sets(s6)
        s8 == triage_suspected_samplers(s7)
        s9 == triage_suspected_staging_buffers(s8)
        s10 == triage_suspected_texture_views(s9)
        s11 == triage_suspected_textures(s10)
        s12 == triage_suspected_buffers(s11)
        s13 == triage_suspected_destroyed_buffers(s12)
    IN  triage_suspected_destroyed_textures(s13)

(***************************************************************************)
(* The steps of the system.                                                *)
(***************************************************************************)
\* The collaborators' state as one value.
World ==
    [ submission_index |-> submission_index,
      map_state |-> map_state,
      user_holds |-> user_holds,
      tracked |-> tracked,
      used |-> used,
      destroyed_index |-> destroyed_index ]

\* The step leaves the collaborators as `world`.
WorldBecomes(world) ==
    /\ submission_index' = world.submission_index
    /\ map_state' = world.map_state
    /\ user_holds' = world.user_holds
    /\ tracked' = world.tracked
    /\ used' = world.used
    /\ destroyed_index' = world.destroyed_index

\* The resources reached from `indices` through the `used` lists.
RECURSIVE Reach(_, _)
Reach(world, indices) ==
    LET next == indices \cup UNION { world.used[r] : r \in indices } IN
    IF next = indices THEN indices ELSE Reach(world, next)

\* The value of destroyed_index for a buffer or texture that is not destroyed.
NotDestroyed == -1

\* The state after construction: every resource exists, is held by the user
\* and by its kind tracker, and was used by no submission.
Init ==
    /\ mapped = LifetimeTracker_new.mapped
    /\ future_suspected_buffers = LifetimeTracker_new.future_suspected_buffers
    /\ future_suspected_textures = LifetimeTracker_new.future_suspected_textures
    /\ suspected_resources = LifetimeTracker_new.suspected_resources
    /\ active = LifetimeTracker_new.active
    /\ ready_to_map = LifetimeTracker_new.ready_to_map
    /\ work_done_closures = LifetimeTracker_new.work_done_closures
    /\ submission_index = [ r \in Resources |-> 0 ]
    /\ map_state = [ b \in Buffers |-> Idle ]
    /\ user_holds = Resources
    /\ tracked = UNION { KindMembers[k] : k \in TrackedKinds }
    /\ used = InitialUsed
    /\ destroyed_index = [ r \in Buffers \cup Textures |-> NotDestroyed ]
    /\ active_submission_index = 0
    /\ clock = 0
    /\ registry = <<>>
    /\ log = <<>>
    /\ landed = [ e \in {} |-> 0 ]

\* The number of registrations of a kind ("map", "work_done") made so far.
Registered(kind) ==
    Cardinality({ id \in DOMAIN registry : registry[id].kind = kind })

\* The log after the tracker has returned the registrations `ids`.
Deliver(ids) ==
    log \o ids

\* The registry with the fate of the map requests `ids` set.
WithFate(ids, fate) ==
    [ id \in DOMAIN registry |->
        IF id \in ids THEN [ registry[id] EXCEPT !.fate = fate ]
        ELSE registry[id] ]

\* The map request a buffer is waiting for, as a set (empty if none).
WaitingFor(world, buffer) ==
    IF world.map_state[buffer].tag = "Waiting"
    THEN { world.map_state[buffer].pending.op.callback }
    ELSE {}

(***************************************************************************)
(* Steps of the collaborators: the queue, the user, the buffer API.        *)
(***************************************************************************)
\* Queue::submit: the resources the commands use are stamped with the new
\* submission index (a mapped or map-pending buffer cannot be used), and the
\* submission is tracked with its encoder and with the temporary resources
\* of the pending writes, which pass from the queue to the tracker.
Submit(usable, temp_choices) ==
    /\ active_submission_index < MaxSubmissions
    /\ \E uses \in SUBSET (usable \cap user_holds), temps \in temp_choices :
         LET index == active_submission_index + 1
             all == Reach(World, uses)
             moved == { temps[i].index : i \in DOMAIN temps }
         IN  /\ \A b \in all \cap Buffers : map_state[b] = Idle
             /\ moved \subseteq user_holds
             /\ user_holds' = user_holds \ moved
             /\ submission_index' =
                    [ r \in Resources |->
                        IF r \in all THEN index ELSE submission_index[r] ]
             /\ active_submission_index' = index
             /\ Becomes(track_submission(Self, index, temps, << index >>))
             /\ landed' = (index :> 0) @@ landed
    /\ UNCHANGED << map_state, tracked, used, destroyed_index,
                    clock, registry, log >>

\* The number of submissions tracked so far: those in `active` and those
\* whose encoder has landed.
RECURSIVE Landings(_)
Landings(encoders) ==
    IF encoders = {} THEN 0
    ELSE LET e == CHOOSE x \in encoders : TRUE IN
         landed[e] + Landings(encoders \ {e})

TrackedSoFar == Len(active) + Landings(DOMAIN landed)

\* LifetimeTracker::track_submission called with an index of the caller's
\* choice, which need not be greater than those of the submissions tracked.
TrackSubmissionAt(index) ==
    /\ TrackedSoFar <= MaxSubmissions
    /\ Becomes(track_submission(Self, index, <<>>, << index >>))
    /\ active_submission_index' =
           IF index > active_submission_index THEN index
           ELSE active_submission_index
    /\ landed' = landed @@ (index :> 0)
    /\ UNCHANGED << submission_index, map_state, user_holds, tracked, used,
                    destroyed_index, clock, registry, log >>

TrackSubmission ==
    \E index \in 1..MaxSubmissions : TrackSubmissionAt(index)

\* LifetimeTracker::post_submit, called by the queue after a submission.
PostSubmit ==
    /\ Becomes(post_submit(Self))
    /\ UNCHANGED << world_vars, clock, registry, log, landed >>

\* Global::buffer_map_async: an idle buffer starts waiting for the mapping
\* of `range` and is handed to LifetimeTracker::map.
MapAsync(buffers, ranges, hosts) ==
    /\ Registered("map") < MaxMaps
    /\ \E buffer \in buffers \cap user_holds, range \in ranges, host \in hosts :
         /\ map_state[buffer] = Idle
         /\ map_state' =
                [ map_state EXCEPT ![buffer] =
                    Waiting(BufferPendingMapping(range[1], range[2], host,
                                                 clock + 1)) ]
         /\ Becomes(map(Self, buffer))
         /\ registry' =
                Append(registry,
                       [ kind |-> "map", buffer |-> buffer,
                         home |-> IF \E i \in DOMAIN active :
                                       active[i].index = submission_index[buffer]
                                  THEN submission_index[buffer]
                                  ELSE 0,
                         fate |-> "waiting" ])
    /\ clock' = clock + 1
    /\ UNCHANGED log
    /\ UNCHANGED << submission_index, user_holds, tracked, used,
                    destroyed_index, active_submission_index, landed >>

\* Global::buffer_unmap: a waiting or mapped buffer goes back to Idle (a
\* pending request is cancelled: its callback is told so by the unmap path).
Unmap ==
    /\ \E buffer \in Buffers \cap user_holds :
         /\ map_state[buffer] # Idle
         /\ map_state' = [ map_state EXCEPT ![buffer] = Idle ]
         /\ registry' = WithFate(WaitingFor(World, buffer), "cancelled")
    /\ UNCHANGED << tracker_vars, submission_index, user_holds, tracked, used,
                    destroyed_index, active_submission_index, clock,
                    log, landed >>

\* Queue::on_submitted_work_done
AddWorkDoneClosure ==
    /\ Registered("work_done") < MaxClosures
    /\ Becomes(add_work_done_closure(Self, clock + 1))
    /\ registry' =
           Append(registry,
                  [ kind |-> "work_done", buffer |-> "none",
                    home |-> IF active = <<>> THEN 0
                             ELSE active[Len(active)].index,
                    fate |-> "waiting" ])
    /\ clock' = clock + 1
    /\ UNCHANGED log
    /\ UNCHANGED << world_vars, landed >>

\* The remains of a buffer or texture that the user destroys are handed to
\* schedule_resource_destruction, once, with the index of a submission made
\* so far (active or completed).
ScheduleResourceDestruction(temp_resources) ==
    /\ \E temp_resource \in temp_resources,
          last_submit_index \in 0..active_submission_index :
         /\ temp_resource.index \in DOMAIN destroyed_index \cap user_holds
         /\ destroyed_index[temp_resource.index] = NotDestroyed
         /\ destroyed_index' =
                [ destroyed_index EXCEPT ![temp_resource.index] =
                    submission_index[temp_resource.index] ]
         /\ Becomes(schedule_resource_destruction(Self, temp_resource,
                                                  last_submit_index))
    /\ UNCHANGED << submission_index, map_state, user_holds, tracked, used,
                    active_submission_index, clock, registry, log, landed >>

\* The user drops the handle of a resource: the resource becomes suspected.
UserDrop(droppable) ==
    /\ \E r \in droppable \cap user_holds :
         /\ user_holds' = user_holds \ {r}
         /\ suspected_resources' =
                ResourceMaps_insert(suspected_resources, KindOf(r), r)
    /\ UNCHANGED << mapped, future_suspected_buffers,
                    future_suspected_textures, active, ready_to_map,
                    work_done_closures, submission_index, map_state, tracked,
                    used, destroyed_index, active_submission_index, clock,
                    registry, log, landed >>

\* The user drops the handle of a buffer or texture that a pending
\* write_buffer / write_texture still refers to: it waits in
\* future_suspected_* for the next submission.
UserDropWritten(droppable) ==
    /\ \E r \in droppable \cap user_holds \cap (Buffers \cup Textures) :
         /\ user_holds' = user_holds \ {r}
         /\ IF r \in Buffers
            THEN /\ future_suspected_buffers' =
                        Append(future_suspected_buffers, r)
                 /\ UNCHANGED future_suspected_textures
            ELSE /\ future_suspected_textures' =
                        Append(future_suspected_textures, r)
                 /\ UNCHANGED future_suspected_buffers
    /\ UNCHANGED << mapped, suspected_resources, active, ready_to_map,
                    work_done_closures, submission_index, map_state, tracked,
                    used, destroyed_index, active_submission_index, clock,
                    registry, log, landed >>

\* The user destroys a buffer or texture: what remains of it is a
\* DestroyedBuffer / DestroyedTexture with the submission index of its last
\* use, which becomes suspected.
Destroy(destroyable) ==
    /\ \E r \in destroyable \cap user_holds \cap (Buffers \cup Textures) :
         /\ destroyed_index[r] = NotDestroyed
         /\ destroyed_index' =
                [ destroyed_index EXCEPT ![r] = submission_index[r] ]
         /\ suspected_resources' =
                ResourceMaps_insert(
                    suspected_resources,
                    IF r \in Buffers THEN "destroyed_buffers"
                    ELSE "destroyed_textures",
                    r)
    /\ UNCHANGED << mapped, future_suspected_buffers,
                    future_suspected_textures, active, ready_to_map,
                    work_done_closures, submission_index, map_state,
                    user_holds, tracked, used, active_submission_index, clock,
                    registry, log, landed >>

(***************************************************************************)
(* Steps of the maintenance of the device.                                 *)
(***************************************************************************)
TriageSuspected ==
    /\ LET t == triage_suspected(Self, World) IN
         /\ Becomes(t.self)
         /\ WorldBecomes(t.world)
    /\ UNCHANGED << active_submission_index, clock, registry, log,
                    landed >>

TriageMapped ==
    /\ Becomes(triage_mapped(Self, World))
    /\ UNCHANGED << world_vars, clock, registry, log, landed >>

\* The texture views held by the last_resources that triage_submissions drops.
DroppedWith(t) ==
    UNION { t.dropped[i].texture_views : i \in DOMAIN t.dropped }

\* The count of landings after the encoders `released` have landed.
Land(released) ==
    [ e \in DOMAIN landed |->
        landed[e] + Cardinality({ i \in DOMAIN released : released[i] = e }) ]

\* triage_submissions(last_done)
TriageSubmissionsAt(last_done) ==
    /\   LET t == triage_submissions(Self, last_done) IN
         /\ Becomes(t.self)
         /\ WorldBecomes(release(World, DroppedWith(t)))
         /\ log' = Deliver(t.work_done_closures)
         /\ landed' = Land(t.released)
    /\ UNCHANGED << active_submission_index, clock, registry >>

\* triage_submissions with the fence's completed value.
TriageSubmissions ==
    \E last_done \in 0..active_submission_index :
        TriageSubmissionsAt(last_done)

\* The map requests that handle_mapping found abandoned.
AbandonedRequests(world, h) ==
    UNION { WaitingFor(world, h.abandoned[i]) : i \in DOMAIN h.abandoned }

\* The registrations of the callbacks that handle_mapping returns.
CallbacksOf(h) ==
    [ i \in DOMAIN h.pending_callbacks |-> h.pending_callbacks[i][1].callback ]

\* handle_mapping; the HAL may fail to map any of the buffers of `may_fail`.
HandleMapping(may_fail) ==
    /\ \E hal_fails \in SUBSET (may_fail \cap Range(ready_to_map)) :
         LET h == handle_mapping(Self, World, hal_fails) IN
         /\ Becomes(h.self)
         /\ WorldBecomes(h.world)
         /\ log' = Deliver(CallbacksOf(h))
         /\ registry' = WithFate(AbandonedRequests(World, h), "abandoned")
    /\ UNCHANGED << active_submission_index, clock, landed >>

\* One maintenance tick of the device: triage_suspected, triage_mapped,
\* triage_submissions with the fence's completed value, handle_mapping.
Tick(may_fail) ==
    /\ \E last_done \in 0..active_submission_index,
          s \in { triage_suspected(Self, World) } :
         \E m \in { triage_mapped(s.self, s.world) } :
         \E t \in { triage_submissions(m, last_done) } :
         \E w \in { release(s.world, DroppedWith(t)) },
            hal_fails \in SUBSET (may_fail \cap Range(t.self.ready_to_map)) :
         \E h \in { handle_mapping(t.self, w, hal_fails) } :
               /\ Becomes(h.self)
               /\ WorldBecomes(h.world)
               /\ log' = Deliver(t.work_done_closures \o CallbacksOf(h))
               /\ landed' = Land(t.released)
               /\ registry' = WithFate(AbandonedRequests(w, h), "abandoned")
    /\ UNCHANGED << active_submission_index, clock >>

(***************************************************************************)
(* The specifications.                                                     *)
(***************************************************************************)
\* The inputs the steps draw from.
MapRange == { << 0, 4 >> }
MapRanges == { << 0, 0 >>, << 0, 4 >> }
HostModes == { "Read" }
BothHostModes == { "Read", "Write" }
NoTemps == { <<>> }
StagingTemps == { <<>>, << TempResource("StagingBuffer", "sb1") >> }
Scheduled == { TempResource("DestroyedBuffer", "b2") }

\* The inputs made so far: submissions, registrations, drops and destructions.
Events ==
    active_submission_index + Len(registry)
        + Cardinality(Resources \ user_holds)
        + Cardinality({ r \in DOMAIN destroyed_index :
                          destroyed_index[r] # NotDestroyed })

Budget == Events < MaxEvents

\* Spec: every operation of the tracker and every step of its collaborators,
\* in any order, for up to MaxEvents inputs.
Next ==
    \/ Budget /\ Submit(Buffers, StagingTemps)
    \/ PostSubmit
    \/ Budget /\ MapAsync(Buffers, MapRange, HostModes)
    \/ Unmap
    \/ Budget /\ AddWorkDoneClosure
    \/ ScheduleResourceDestruction(Scheduled)
    \/ Budget /\ UserDrop(Buffers)
    \/ Budget /\ UserDropWritten({"b2"})
    \/ Budget /\ Destroy({"b2"})
    \/ TriageSuspected
    \/ TriageMapped
    \/ TriageSubmissions
    \/ HandleMapping(Buffers)

Spec == Init /\ [][Next]_vars

\* SpecMap: the path of a map request (submissions, buffer_map_async of
\* empty and non-empty ranges for reading and writing, buffer_unmap, the
\* drop of a buffer, and the three maintenance steps of mapping, with a HAL
\* that may fail), in any order, for up to MaxEvents inputs.
NextMap ==
    \/ Budget /\ Submit(Buffers, NoTemps)
    \/ Budget /\ MapAsync(Buffers, MapRanges, BothHostModes)
    \/ Unmap
    \/ Budget /\ UserDrop({"b2"})
    \/ TriageMapped
    \/ TriageSubmissions
    \/ HandleMapping(Buffers)

SpecMap == Init /\ [][NextMap]_vars

\* SpecQueue: submissions and work-done closures.
NextQueue ==
    \/ Submit(Buffers, NoTemps)
    \/ AddWorkDoneClosure
    \/ TriageSubmissions

SpecQueue == Init /\ [][NextQueue]_vars

\* SpecCascade: resources of every kind are dropped or destroyed while
\* submissions use them, and a buffer is mapped and unmapped, for up to
\* MaxEvents inputs.
NextCascade ==
    \/ Budget /\ Submit({"b2", "rb1", "cp1"}, NoTemps)
    \/ PostSubmit
    \/ Budget /\ MapAsync({"b2"}, MapRange, HostModes)
    \/ Unmap
    \/ Budget /\ UserDrop(Resources)
    \/ Budget /\ UserDropWritten({"b2", "t1"})
    \/ Budget /\ Destroy({"b2", "t1"})
    \/ TriageSuspected
    \/ TriageMapped
    \/ TriageSubmissions
    \/ HandleMapping({})

SpecCascade == Init /\ [][NextCascade]_vars

\* SpecTick: submissions, map requests, unmaps and work-done closures, with
\* the maintenance done as the device does it, one whole tick at a time, for
\* up to MaxEvents + 1 inputs.
TickBudget == Events <= MaxEvents

NextTick ==
    \/ TickBudget /\ Submit(Buffers, NoTemps)
    \/ TickBudget /\ MapAsync(Buffers, MapRange, HostModes)
    \/ Unmap
    \/ TickBudget /\ AddWorkDoneClosure
    \/ Tick(Buffers)

SpecTick == Init /\ [][NextTick]_vars

\* SpecContract: track_submission is called with any index, greater than
\* those of the submissions in `active` or not; closures are registered and
\* submissions complete.
NextContract ==
    \/ TrackSubmission
    \/ AddWorkDoneClosure
    \/ TriageSubmissions

SpecContract == Init /\ [][NextContract]_vars

\* SpecLast: what fills the last_resources of the submissions: submissions
\* with temporary resources, scheduled destructions, and the triage of
\* dropped and destroyed resources, for up to MaxEvents + 1 inputs.
NextLast ==
    \/ TickBudget /\ Submit({"b1", "b2", "rb1"}, StagingTemps)
    \/ PostSubmit
    \/ TickBudget /\ ScheduleResourceDestruction(Scheduled)
    \/ TickBudget /\ UserDrop({"b1", "b2", "rb1", "bg1"})
    \/ TickBudget /\ UserDropWritten({"b2"})
    \/ TickBudget /\ Destroy({"b2", "t1"})
    \/ TriageSuspected
    \/ TriageSubmissions

SpecLast == Init /\ [][NextLast]_vars

(***************************************************************************)
(* Properties.                                                             *)
(***************************************************************************)
\* The indices of the active submissions, in order.
ActiveIndices == [ i \in DOMAIN active |-> active[i].index ]

InFlight(index) == \E i \in DOMAIN active : active[i].index = index

\* The registrations that are map requests, and those that are closures.
MapRequests == { id \in DOMAIN registry : registry[id].kind = "map" }
Closures == { id \in DOMAIN registry : registry[id].kind = "work_done" }

\* The map request is still the one its buffer waits for.
Pending(id) == id \in WaitingFor(World, registry[id].buffer)

\* How often an element occurs in a sequence.
Count(s, x) == Cardinality({ i \in DOMAIN s : s[i] = x })

\* How often the tracker has returned each registration.
delivered == [ id \in DOMAIN registry |-> Count(log, id) ]

\* How often a buffer occurs in the mapped lists of the active submissions.
RECURSIVE CountActiveMapped(_, _)
CountActiveMapped(subs, b) ==
    IF subs = <<>> THEN 0
    ELSE Count(Head(subs).mapped, b) + CountActiveMapped(Tail(subs), b)

\* How often a buffer occurs in `mapped`, the active[i].mapped and
\* `ready_to_map` together.
Occurrences(b) ==
    Count(mapped, b) + CountActiveMapped(active, b) + Count(ready_to_map, b)

----------------------------------------------------------------------------
\* The buffers a step maps: those that go from Waiting to Active and those
\* a callback is returned for.
MappedByStep ==
    { b \in Buffers :
        \/ map_state[b].tag = "Waiting" /\ map_state'[b].tag = "Active"
        \/ \E id \in MapRequests :
              registry[id].buffer = b /\ delivered'[id] > delivered[id] }

\* C1: handle_mapping never maps a buffer (calls the HAL map_buffer or returns
\* a callback for it) while `active` still holds the submission that the
\* buffer's submission_index names.  (Every submission index of the model
\* names a submission that is active or completed: Submit stamps the index
\* and tracks the submission in one step.)
C1_NoMapWhileInFlight ==
    [][ \A b \in MappedByStep :
          ~\E i \in DOMAIN active' :
               active'[i].index = submission_index'[b] ]_vars

----------------------------------------------------------------------------
\* The tracker or the user holds the resource: the user's handle, the kind
\* tracker, suspected_resources, or the last_resources of the submission.
Held(r, a) ==
    \/ r \in user_holds
    \/ r \in tracked
    \/ r \in suspected_resources[KindOf(r)]
    \/ r \in a.last_resources[KindOf(r)]

\* The step keeps the submission with all of its last_resources, or it is a
\* triage_submissions whose last_done reaches the index of the submission.
KeptUntilDone(a) ==
    \/ \E j \in DOMAIN active' :
          /\ active'[j].index = a.index
          /\ \A k \in Kinds :
                a.last_resources[k] \subseteq active'[j].last_resources[k]
    \/ \E last_done \in a.index..active_submission_index :
          TriageSubmissionsAt(last_done)

----------------------------------------------------------------------------
\* The buffer of the request is in none of the tracker's lists: every entry
\* that map() pushed for it has been through handle_mapping.
Unlisted(id) == Occurrences(registry[id].buffer) = 0

\* C2 as stated: handle_mapping returns exactly one callback entry for every
\* map request, never zero and never two.
C2_ExactlyOneCallback ==
    \A id \in MapRequests :
        /\ delivered[id] <= 1
        /\ Unlisted(id) => delivered[id] = 1

\* C2 as amended: handle_mapping returns at most one callback entry for a map
\* request; once the buffer has left the tracker's lists it has returned
\* exactly one, unless the request was cancelled by an unmap while it waited
\* or handle_mapping found the buffer abandoned: then it returns none.
C2_OneCallbackUnlessCancelledOrAbandoned ==
    \A id \in MapRequests :
        /\ delivered[id] <= 1
        /\ delivered[id] = 1 => registry[id].fate = "waiting" /\ ~Pending(id)
        /\ Unlisted(id) =>
              (delivered[id] = 1 <=> registry[id].fate = "waiting")

\* A buffer was mapped, unmapped and mapped again, and handle_mapping has
\* answered the second request once and the first never.
C2_Witness ==
    \E id1, id2 \in MapRequests :
        /\ id1 < id2
        /\ registry[id1].buffer = registry[id2].buffer
        /\ Unlisted(id2)
        /\ registry[id1].fate = "cancelled" /\ delivered[id1] = 0
        /\ delivered[id2] = 1

----------------------------------------------------------------------------
StrictlyIncreasing(s) == \A i, j \in DOMAIN s : i < j => s[i] < s[j]

\* C4: after every operation the indices of the entries of `active` are
\* strictly increasing from first to last.
C4_ActiveStrictlyIncreasing == StrictlyIncreasing(ActiveIndices)

\* Two submissions are active.
C4_Witness ==
    /\ Len(active) = 2
    /\ active[2].index = MaxSubmissions

----------------------------------------------------------------------------
\* C5: after triage_submissions(k) no entry of `active` has an index <= k,
\* the entries with an index > k are all there in their order, and with k
\* the largest index tracked `active` is empty.
C5_TriageSubmissionsDrainsPrefix ==
    [][ \A k \in 0..(MaxSubmissions + 1) :
          TriageSubmissionsAt(k) =>
            /\ \A i \in DOMAIN active' : active'[i].index > k
            /\ active' = SelectSeq(active, LAMBDA a : a.index > k)
            /\ k >= active_submission_index => queue_empty(Self') ]_vars

\* Of two submissions the first has been drained and the second is left.
C5_Witness ==
    /\ Len(active) = 1
    /\ active[1].index = 2
    /\ active_submission_index = 2

----------------------------------------------------------------------------
\* Where the tracker keeps a closure it has not returned: 0 for its own
\* work_done_closures, else the index of the submission.
Holder(c) ==
    IF c \in Range(work_done_closures) THEN 0
    ELSE active[CHOOSE i \in DOMAIN active :
                    c \in Range(active[i].work_done_closures)].index

\* The list is in the order of C6.
InClosureOrder(cs) ==
    \A i, j \in DOMAIN cs :
        i < j =>
          /\ registry[cs[j]].home = 0 => registry[cs[i]].home = 0
          /\ \/ Holder(cs[i]) < Holder(cs[j])
             \/ Holder(cs[i]) = Holder(cs[j]) /\ cs[i] < cs[j]

\* C6: the list of closures that a triage_submissions call returns has first
\* the closures registered while `active` was empty, in the order of their
\* registration, then those of each completed submission, by ascending
\* index, and those of one submission in the order of their registration.
C6_ClosuresInOrder ==
    \A k \in 0..active_submission_index :
        InClosureOrder(triage_submissions(Self, k).work_done_closures)

\* A call would return three closures: one registered while `active` was
\* empty and one of each of two submissions.
C6_Witness ==
    \E k \in 0..active_submission_index :
        LET cs == triage_submissions(Self, k).work_done_closures IN
        /\ Len(cs) = 3
        /\ Holder(cs[1]) = 0 /\ Holder(cs[2]) = 1 /\ Holder(cs[3]) = 2

----------------------------------------------------------------------------
\* C7: a closure registered while `active` is non-empty is returned by the
\* first triage_submissions whose last_done reaches the index of the
\* submission that was last in `active` then, and by no earlier one; one
\* registered while `active` is empty is returned by the next
\* triage_submissions; none is returned twice or lost.
C7_ClosureReturnedOnce ==
    \A c \in Closures :
        /\ delivered[c] <= 1
        /\ \A k \in 0..active_submission_index :
              Count(triage_submissions(Self, k).work_done_closures, c)
                  = IF /\ delivered[c] = 0
                       /\ registry[c].home = 0 \/ k >= registry[c].home
                    THEN 1 ELSE 0

\* A closure of the second submission has been returned, and no other.
C7_Witness ==
    \E c \in Closures :
        /\ registry[c].home = 2
        /\ delivered[c] = 1
        /\ active = <<>>

----------------------------------------------------------------------------
----------------------------------------------------------------------------
\* When the tracker returned a registration.
ReturnedAt(id) == CHOOSE i \in DOMAIN log : log[i] = id

\* The tracker returned x before y.
Before(x, y) ==
    /\ delivered[x] >= 1
    /\ delivered[y] = 0 \/ ReturnedAt(x) < ReturnedAt(y)

----------------------------------------------------------------------------
\* C10 as stated: a buffer occurs at most once in `mapped`, the
\* active[i].mapped and `ready_to_map` together, and a buffer in none of
\* them is Idle.
C10_AtMostOnePlace ==
    \A b \in Buffers :
        /\ Occurrences(b) <= 1
        /\ Occurrences(b) = 0 => map_state[b] = Idle

\* The map requests of a buffer that an unmap cancelled while they waited.
Cancelled(b) ==
    Cardinality({ id \in MapRequests :
                    registry[id].buffer = b /\ registry[id].fate = "cancelled" })

\* C10 as amended: a buffer that waits for its mapping is in at least one of
\* `mapped`, the active[i].mapped and `ready_to_map`, so that a buffer in
\* none of them is Idle or Active; and it occurs there once, plus at most
\* once more for each of its requests that an unmap cancelled.
C10_WaitingIsListed ==
    \A b \in Buffers :
        /\ map_state[b].tag = "Waiting" => Occurrences(b) >= 1
        /\ Occurrences(b) <=
              Cancelled(b) + (IF map_state[b].tag = "Waiting" THEN 1 ELSE 0)

\* A buffer waits in the mapped list of an active submission and nowhere else.
C10_Witness ==
    \E b \in Buffers :
        /\ map_state[b].tag = "Waiting"
        /\ Occurrences(b) = 1
        /\ CountActiveMapped(active, b) = 1

----------------------------------------------------------------------------
\* C11: after every operation, no buffer of `ready_to_map` has the
\* submission_index of an entry of `active`.
C11_ReadyToMapNotInFlight ==
    \A i \in DOMAIN ready_to_map :
        ~InFlight(submission_index[ready_to_map[i]])

----------------------------------------------------------------------------
\* C12: after every operation, every buffer in the mapped list of an active
\* submission has the index of that submission as its submission_index.
C12_ActiveMappedHasIndex ==
    \A i \in DOMAIN active :
        \A j \in DOMAIN active[i].mapped :
            submission_index[active[i].mapped[j]] = active[i].index

----------------------------------------------------------------------------
\* C13: immediately after a triage_suspected call, from whatever state it
\* is made, suspected_resources.pipeline_layouts, .bind_group_layouts and
\* .staging_buffers are empty, whatever the call started with and whatever
\* its steps for render bundles, pipelines and bind groups enqueued.
C13_LayoutsAndStagingEmptied ==
    LET t == triage_suspected(Self, World) IN
    /\ t.self.suspected_resources.pipeline_layouts = {}
    /\ t.self.suspected_resources.bind_group_layouts = {}
    /\ t.self.suspected_resources.staging_buffers = {}

\* A staging buffer and an abandoned compute pipeline are suspected, the
\* layouts are not: the call removes the pipeline, enqueues its pipeline
\* layout and that one's bind group layout, and leaves the three maps empty.
C13_Witness ==
    /\ "sb1" \in suspected_resources.staging_buffers
    /\ "cp1" \in suspected_resources.compute_pipelines
    /\ suspected_resources.pipeline_layouts = {}
    /\ suspected_resources.bind_group_layouts = {}
    /\ LET t == triage_suspected(Self, World) IN
         /\ "cp1" \in tracked \ t.world.tracked
         /\ t.self.suspected_resources.pipeline_layouts = {}
         /\ t.self.suspected_resources.bind_group_layouts = {}
         /\ t.self.suspected_resources.staging_buffers = {}

----------------------------------------------------------------------------
----------------------------------------------------------------------------
\* The render bundle rb1, the bind group bg1 it uses and the buffer b1 that
\* bg1 uses are suspected and abandoned but for the references of the chain:
\* the user holds none of them, only rb1 refers to bg1 and only rb1 and bg1
\* refer to b1.
AbandonedChain(self, world) ==
    /\ "rb1" \in self.suspected_resources.render_bundles
    /\ "bg1" \in self.suspected_resources.bind_groups
    /\ "b1" \in self.suspected_resources.buffers
    /\ {"rb1", "bg1", "b1"} \subseteq world.tracked
    /\ {"rb1", "bg1", "b1"} \cap world.user_holds = {}
    /\ "bg1" \in world.used["rb1"] /\ "b1" \in world.used["bg1"]

\* No resource left in suspected_resources would be found abandoned by the
\* kind tracker: a second triage_suspected has nothing to remove.
NothingAbandonedLeft(self, world) ==
    \A k \in Kinds :
        \A r \in self.suspected_resources[k] :
            /\ k \in TrackedKinds
            /\ ~remove_abandoned(world, r).is_removed

\* C15: the cascade completes in one triage_suspected call, whose steps run
\* in the fixed order from render bundles to destroyed textures so that what
\* a step enqueues is triaged by a later step of the same call: after the
\* call nothing abandoned is left in suspected_resources, and an abandoned
\* render bundle, the abandoned bind group it uses and the abandoned buffer
\* that bind group uses have all left suspected_resources and the trackers.
C15_CascadeInOneCall ==
    LET t == triage_suspected(Self, World) IN
    /\ NothingAbandonedLeft(t.self, t.world)
    /\ AbandonedChain(Self, World) =>
          /\ "rb1" \notin t.self.suspected_resources.render_bundles
          /\ "bg1" \notin t.self.suspected_resources.bind_groups
          /\ "b1" \notin t.self.suspected_resources.buffers
          /\ {"rb1", "bg1", "b1"} \cap t.world.tracked = {}

\* The chain is suspected and abandoned, and one call removes all three.
C15_Witness ==
    /\ AbandonedChain(Self, World)
    /\ LET t == triage_suspected(Self, World) IN
         /\ {"rb1", "bg1", "b1"} \cap t.world.tracked = {}
         /\ "rb1" \notin t.self.suspected_resources.render_bundles
         /\ "bg1" \notin t.self.suspected_resources.bind_groups
         /\ "b1" \notin t.self.suspected_resources.buffers

----------------------------------------------------------------------------
\* The iterations of the loop of handle_mapping over `queue`: for each the
\* buffer, and the state of the loop before and after it.
RECURSIVE handle_mapping_steps(_, _, _)
handle_mapping_steps(st, queue, hal_fails) ==
    IF queue = <<>> THEN <<>>
    ELSE LET after == handle_mapping_one(st, Head(queue), hal_fails) IN
         << [ buffer |-> Head(queue), before |-> st, after |-> after ] >>
             \o handle_mapping_steps(after, Tail(queue), hal_fails)

\* The iterations of a handle_mapping call made now, with a HAL that fails
\* for the buffers of hal_fails.
Iterations(hal_fails) ==
    handle_mapping_steps(
        [ world |-> World, pending_callbacks |-> <<>>, hal_calls |-> <<>>,
          abandoned |-> <<>>, panicked |-> FALSE ],
        ready_to_map, hal_fails)

\* What an iteration did: the callbacks it added to the returned list, the
\* calls of the HAL map_buffer it made, the map state it found and left.
Pushed(it) ==
    SubSeq(it.after.pending_callbacks, Len(it.before.pending_callbacks) + 1,
           Len(it.after.pending_callbacks))
HalCalled(it) ==
    SubSeq(it.after.hal_calls, Len(it.before.hal_calls) + 1,
           Len(it.after.hal_calls))
StateBefore(it) == it.before.world.map_state[it.buffer]
StateAfter(it) == it.after.world.map_state[it.buffer]
IsAbandoned(it) == remove_abandoned(it.before.world, it.buffer).is_removed

\* The operation of the request a map state waits for, as a set.
PendingOps(state) ==
    IF state.tag = "Waiting" THEN { state.pending.op } ELSE {}

\* The sets of buffers the HAL may fail for.
HalFailures == SUBSET Buffers

----------------------------------------------------------------------------
\* C16: in handle_mapping, for a buffer of ready_to_map for which the buffer
\* tracker's remove_abandoned returns true, no callback is added to the
\* returned list, the HAL map_buffer is not called, and the map state of the
\* buffer is Idle afterwards (after the iteration and after the call),
\* whatever it was before.
C16_AbandonedIsSilentAndIdle ==
    \A hal_fails \in HalFailures :
        LET its == Iterations(hal_fails)
            h == handle_mapping(Self, World, hal_fails)
        IN  \A i \in DOMAIN its :
                IsAbandoned(its[i]) =>
                    /\ Pushed(its[i]) = <<>>
                    /\ HalCalled(its[i]) = <<>>
                    /\ StateAfter(its[i]) = Idle
                    /\ h.world.map_state[its[i].buffer] = Idle
                    /\ \A j \in DOMAIN h.pending_callbacks :
                          h.pending_callbacks[j][1]
                              \notin PendingOps(StateBefore(its[i]))

\* A buffer that waits for its mapping is in ready_to_map and abandoned: the
\* call returns nothing and leaves it Idle.
C16_Witness ==
    \E i \in DOMAIN ready_to_map :
        LET its == Iterations({}) IN
        /\ IsAbandoned(its[i])
        /\ StateBefore(its[i]).tag = "Waiting"
        /\ handle_mapping(Self, World, {}).pending_callbacks = <<>>
        /\ handle_mapping(Self, World, {}).world.map_state[ready_to_map[i]] = Idle

----------------------------------------------------------------------------
\* C17: in handle_mapping, for a buffer that is not abandoned and whose map
\* state is Active, no callback is produced and the map state afterwards is
\* the same Active{ptr, range, host}; for one that is not abandoned and whose
\* map state is Idle (mapping cancelled), no callback is produced and the
\* state stays Idle.
C17_ActiveAndIdleAreSkipped ==
    \A hal_fails \in HalFailures :
        LET its == Iterations(hal_fails) IN
        \A i \in DOMAIN its :
            ~IsAbandoned(its[i]) /\ StateBefore(its[i]).tag \in {"Active", "Idle"} =>
                /\ Pushed(its[i]) = <<>>
                /\ HalCalled(its[i]) = <<>>
                /\ StateAfter(its[i]) = StateBefore(its[i])
                /\ its[i].after.world = its[i].before.world

\* ready_to_map holds a buffer twice that was requested, unmapped and
\* requested again: the first iteration maps it, the second finds it Active
\* and leaves it so, and one callback is returned.
C17_Witness ==
    /\ Len(ready_to_map) = 2
    /\ ready_to_map[1] = ready_to_map[2]
    /\ LET its == Iterations({}) IN
         /\ StateBefore(its[1]).tag = "Waiting"
         /\ ~IsAbandoned(its[2])
         /\ StateBefore(its[2]).tag = "Active"
         /\ StateAfter(its[2]) = StateBefore(its[2])
         /\ Len(its[2].after.pending_callbacks) = 1

----------------------------------------------------------------------------
\* C18: in handle_mapping, for a buffer that is not abandoned and is
\* Waiting(pending) with pending.range.start = pending.range.end, the HAL
\* map_buffer is not called, the map state becomes Active with a dangling
\* pointer and the pending range and host mode, and the callback entry
\* (pending.op, Ok) is returned.
C18_EmptyRangeMapsWithoutHal ==
    \A hal_fails \in HalFailures :
        LET its == Iterations(hal_fails) IN
        \A i \in DOMAIN its :
            LET state == StateBefore(its[i]) IN
            /\ ~IsAbandoned(its[i])
            /\ state.tag = "Waiting"
            /\ state.pending.range.start = state.pending.range.end
            => /\ HalCalled(its[i]) = <<>>
               /\ StateAfter(its[i]) =
                      Active("dangling", state.pending.range,
                             state.pending.op.host)
               /\ Pushed(its[i]) = << << state.pending.op, "Ok" >> >>

\* A buffer waits for the mapping of an empty range for writing, and the HAL
\* would fail for it: the call returns Ok and leaves it Active.
C18_Witness ==
    \E i \in DOMAIN ready_to_map :
        LET it == Iterations(Buffers)[i] IN
        /\ ~IsAbandoned(it)
        /\ StateBefore(it).tag = "Waiting"
        /\ StateBefore(it).pending.range.start = StateBefore(it).pending.range.end
        /\ StateBefore(it).pending.op.host = "Write"
        /\ StateAfter(it).tag = "Active"
        /\ Pushed(it)[1][2] = "Ok"

----------------------------------------------------------------------------
\* The iterations that find a buffer that is not abandoned and waits.
WaitingIterations(its) ==
    { i \in DOMAIN its :
        ~IsAbandoned(its[i]) /\ StateBefore(its[i]).tag = "Waiting" }

\* C19: in handle_mapping, when the HAL map_buffer call for a Waiting buffer
\* fails, the callback entry (pending.op, Err(e)) with that error is
\* returned, the map state of the buffer is Idle afterwards, and the
\* remaining buffers of ready_to_map are still processed (every buffer of
\* ready_to_map has its iteration, each waiting one its entry in the list the
\* call returns, and ready_to_map is empty after the call); when the call
\* succeeds the state is Active{ptr, start..start+size, host} and the entry
\* is (pending.op, Ok).
C19_HalFailureIsReported ==
    \A hal_fails \in HalFailures :
        LET its == Iterations(hal_fails)
            h == handle_mapping(Self, World, hal_fails)
        IN
        /\ Len(its) = Len(ready_to_map)
        /\ h.self.ready_to_map = <<>>
        /\ ~h.panicked
        /\ h.pending_callbacks = Flatten([ i \in DOMAIN its |-> Pushed(its[i]) ])
        /\ \A i \in WaitingIterations(its) :
              LET pending == StateBefore(its[i]).pending
                  size == pending.range.end - pending.range.start
                  res == map_buffer(its[i].buffer, pending.range.start, size,
                                    pending.op.host, hal_fails)
              IN  pending.range.start # pending.range.end =>
                    /\ HalCalled(its[i]) = << its[i].buffer >>
                    /\ ~res.ok =>
                          /\ Pushed(its[i]) = << << pending.op, res.err >> >>
                          /\ StateAfter(its[i]) = Idle
                    /\ res.ok =>
                          /\ Pushed(its[i]) = << << pending.op, "Ok" >> >>
                          /\ StateAfter(its[i]) =
                                 Active(res.ptr,
                                        [ start |-> pending.range.start,
                                          end |-> pending.range.start + size ],
                                        pending.op.host)

\* Two buffers wait in ready_to_map; the HAL fails for the first and not for
\* the second: the call returns the error for the first, which is left Idle,
\* and then Ok for the second, which is left Active.
C19_Witness ==
    /\ Len(ready_to_map) = 2
    /\ ready_to_map[1] # ready_to_map[2]
    /\ LET h == handle_mapping(Self, World, { ready_to_map[1] }) IN
         /\ Len(h.pending_callbacks) = 2
         /\ h.pending_callbacks[1][2] = "MapError"
         /\ h.pending_callbacks[2][2] = "Ok"
         /\ h.world.map_state[ready_to_map[1]] = Idle
         /\ h.world.map_state[ready_to_map[2]].tag = "Active"

----------------------------------------------------------------------------
\* C20 as stated: track_submission called with an index that is not greater
\* than the index of the last entry of a non-empty `active` aborts: it does
\* not append the entry and does not leave `active` non-increasing.
C20_NonMonotonicIndexAborts ==
    [][ \A index \in 1..MaxSubmissions :
          /\ TrackSubmissionAt(index)
          /\ active # <<>>
          /\ index <= active[Len(active)].index
          => /\ active' = active
             /\ StrictlyIncreasing(ActiveIndices') ]_vars

\* C20 as amended: track_submission does not check its index: called with an
\* index that is not greater than the index of the last entry of a non-empty
\* `active` it appends the entry as for any other index, leaves the entries
\* before it as they are, and so leaves `active` non-increasing.
C20_TrackSubmissionAppendsUnchecked ==
    [][ \A index \in 1..MaxSubmissions :
          /\ TrackSubmissionAt(index)
          /\ active # <<>>
          /\ index <= active[Len(active)].index
          => /\ Len(active') = Len(active) + 1
             /\ SubSeq(active', 1, Len(active)) = active
             /\ active'[Len(active')] =
                    ActiveSubmission(index, ResourceMaps_new, << index >>)
             /\ ~StrictlyIncreasing(ActiveIndices') ]_vars

\* `active` ends with an entry whose index is not greater than that of the
\* entry before it.
C20_Witness ==
    /\ Len(active) >= 2
    /\ active[Len(active)].index <= active[Len(active) - 1].index

----------------------------------------------------------------------------
\* The temporary resources a caller may hand over, one of each variant.
AllTemps ==
    { TempResource("Buffer", "b1"), TempResource("StagingBuffer", "sb1"),
      TempResource("DestroyedBuffer", "b2"), TempResource("Texture", "t1"),
      TempResource("DestroyedTexture", "t1") }

\* C21: schedule_resource_destruction(temp_resource, i) inserts the resource
\* into the last_resources of the active submission whose index is i and
\* into no other, and changes nothing else; when no active submission has
\* the index i it leaves every field of the tracker unchanged.
C21_ScheduledAtExactIndexOrDiscarded ==
    \A temp_resource \in AllTemps, i \in 0..(active_submission_index + 1) :
        LET s == schedule_resource_destruction(Self, temp_resource, i)
            kind == TempResourceKind[temp_resource.variant]
        IN
        IF InFlight(i)
        THEN /\ Len(s.active) = Len(active)
             /\ \A p \in DOMAIN active :
                   IF active[p].index = i
                   THEN s.active[p] =
                          [ active[p] EXCEPT !.last_resources[kind] =
                              @ \cup { temp_resource.index } ]
                   ELSE s.active[p] = active[p]
             /\ [ s EXCEPT !.active = active ] = Self
        ELSE s = Self

\* Of two submissions the first has completed and the second is active: a
\* destroyed buffer scheduled with the index of the second enters its
\* last_resources, one scheduled with the index of the first is discarded.
C21_Witness ==
    /\ Len(active) = 1 /\ active[1].index = 2
    /\ "b2" \notin active[1].last_resources.destroyed_buffers
    /\ LET temp_resource == TempResource("DestroyedBuffer", "b2") IN
         /\ "b2" \in schedule_resource_destruction(Self, temp_resource, 2)
                        .active[1].last_resources.destroyed_buffers
         /\ schedule_resource_destruction(Self, temp_resource, 1) = Self

----------------------------------------------------------------------------
DestroyedKinds == { "destroyed_buffers", "destroyed_textures" }

\* The step keeps the submission with the destroyed buffers and textures of
\* its last_resources, or it is a triage_submissions whose last_done reaches
\* the index of the submission.
DestroyedKeptUntilDone(a) ==
    \/ \E j \in DOMAIN active' :
          /\ active'[j].index = a.index
          /\ \A k \in DestroyedKinds :
                a.last_resources[k] \subseteq active'[j].last_resources[k]
    \/ \E last_done \in a.index..active_submission_index :
          TriageSubmissionsAt(last_done)

\* What a triage_suspected call made now does with the destroyed buffers and
\* textures: the two maps are empty afterwards, an entry whose
\* submission_index is the index of an active submission is in the
\* last_resources of that submission and of no other, any other is nowhere.
DestroyedTriaged ==
    LET t == triage_suspected(Self, World) IN
    \A k \in DestroyedKinds :
        /\ t.self.suspected_resources[k] = {}
        /\ \A p \in DOMAIN active :
              t.self.active[p].last_resources[k] =
                  active[p].last_resources[k]
                      \cup { id \in suspected_resources[k] :
                               destroyed_index[id] = active[p].index }

\* C22: triage_suspected empties suspected_resources.destroyed_buffers and
\* .destroyed_textures; each entry whose submission_index is the index of an
\* active submission is moved into the last_resources of that submission,
\* where it stays until a triage_submissions with last_done >= that index
\* removes the submission; each entry whose submission_index is that of no
\* active submission is dropped by the call.
C22_DestroyedMovedOrDropped ==
    /\ []DestroyedTriaged
    /\ [][ \A i \in DOMAIN active : DestroyedKeptUntilDone(active[i]) ]_vars

\* A destroyed buffer of an active submission and a destroyed texture of no
\* submission are suspected: the call moves the first and drops the second.
C22_Witness ==
    /\ Len(active) = 1
    /\ "b2" \in suspected_resources.destroyed_buffers
    /\ destroyed_index["b2"] = active[1].index
    /\ "t1" \in suspected_resources.destroyed_textures
    /\ ~InFlight(destroyed_index["t1"])
    /\ LET t == triage_suspected(Self, World) IN
         /\ t.self.active[1].last_resources.destroyed_buffers = {"b2"}
         /\ t.self.active[1].last_resources.destroyed_textures = {}
         /\ t.self.suspected_resources.destroyed_buffers = {}
         /\ t.self.suspected_resources.destroyed_textures = {}

----------------------------------------------------------------------------
\* C23: triage_mapped leaves `mapped` empty and moves each buffer that was in
\* it to exactly one place: the end of the mapped list of the active
\* submission whose index is the buffer's submission_index if there is one,
\* otherwise the end of ready_to_map; no buffer is dropped or duplicated,
\* nothing else changes, and with an empty `mapped` the call changes nothing.
C23_TriageMappedMovesEachOnce ==
    \A m \in { triage_mapped(Self, World) } :
    /\ m.mapped = <<>>
    /\ Len(m.active) = Len(active)
    /\ \A p \in DOMAIN active :
          m.active[p] =
              [ active[p] EXCEPT !.mapped =
                  @ \o SelectSeq(mapped,
                                 LAMBDA b : submission_index[b] = active[p].index) ]
    /\ m.ready_to_map =
          ready_to_map
              \o SelectSeq(mapped, LAMBDA b : ~InFlight(submission_index[b]))
    /\ [ m EXCEPT !.mapped = mapped, !.active = active,
                  !.ready_to_map = ready_to_map ] = Self
    /\ \A b \in Buffers :
          Count(m.ready_to_map, b) + CountActiveMapped(m.active, b)
              = Occurrences(b)
    /\ mapped = <<>> => m = Self

\* `mapped` holds a buffer whose submission is active and one whose
\* submission_index is that of no active submission: the call moves the
\* first to the submission and the second to ready_to_map.
C23_Witness ==
    /\ Len(mapped) = 2 /\ Len(active) = 1 /\ ready_to_map = <<>>
    /\ \E b, c \in Range(mapped) :
          /\ submission_index[b] = active[1].index
          /\ ~InFlight(submission_index[c])
          /\ LET m == triage_mapped(Self, World) IN
               /\ m.active[1].mapped = active[1].mapped \o << b >>
               /\ m.ready_to_map = << c >>
               /\ m.mapped = <<>>

----------------------------------------------------------------------------
\* The locks of handle_mapping.  A lock is named by what it guards: "trackers"
\* for the kind trackers, the buffer for its map state.  A program is the
\* sequence of the lock, unlock and call events of a piece of code.
Locked(lock, body) ==
    << [ op |-> "lock", on |-> lock ] >> \o body
        \o << [ op |-> "unlock", on |-> lock ] >>
CallOf(callee) == << [ op |-> "call", on |-> callee ] >>

\* Variant of handle_mapping_one_locks with the std::mem::replace written
\* into the scrutinee of the match: the guard of the map state lives until
\* the end of the match.
handle_mapping_one_locks_inlined(st, buffer, hal_fails) ==
    LET abandoned == remove_abandoned(st.world, buffer)
        mapping == st.world.map_state[buffer]
        relock == Locked(buffer, <<>>)
    IN
    Locked("trackers", CallOf("remove_abandoned"))
    \o IF abandoned.is_removed THEN relock
       ELSE Locked(buffer,
              CASE mapping.tag = "Waiting" ->
                     IF mapping.pending.range.start # mapping.pending.range.end
                     THEN CallOf("map_buffer")
                          \o IF map_buffer(buffer, 0, 0, "Read", hal_fails).ok
                             THEN relock ELSE <<>>
                     ELSE relock
                [] mapping.tag = "Idle" -> <<>>
                [] mapping.tag = "Active" -> relock
                [] OTHER -> <<>>)

\* The program of one iteration of the loop of handle_mapping: the block
\* around remove_abandoned, then each `*buffer.map_state.lock() = ...` and the
\* std::mem::replace as a lock released at the end of its statement.
handle_mapping_one_locks(st, buffer, hal_fails) ==
    LET abandoned == remove_abandoned(st.world, buffer)
        mapping == st.world.map_state[buffer]
        relock == Locked(buffer, <<>>)
    IN
    Locked("trackers", CallOf("remove_abandoned"))
    \o IF abandoned.is_removed THEN relock
       ELSE relock
            \o CASE mapping.tag = "Waiting" ->
                      IF mapping.pending.range.start # mapping.pending.range.end
                      THEN CallOf("map_buffer")
                           \o IF map_buffer(buffer, 0, 0, "Read", hal_fails).ok
                              THEN relock ELSE <<>>
                      ELSE relock
                 [] mapping.tag = "Idle" -> <<>>
                 [] mapping.tag = "Active" -> relock
                 [] OTHER -> <<>>

\* The unmap path of a thread of the API: it takes the lock of the map state
\* of the buffer to put Idle in it, and lets it go.
buffer_unmap_locks(buffer) == Locked(buffer, <<>>)

\* The locks a thread holds before event i of its program.
RECURSIVE LocksHeld(_, _)
LocksHeld(program, i) ==
    IF i <= 1 THEN {}
    ELSE LET event == program[i - 1] IN
         CASE event.op = "lock" -> LocksHeld(program, i - 1) \cup { event.on }
           [] event.op = "unlock" -> LocksHeld(program, i - 1) \ { event.on }
           [] OTHER -> LocksHeld(program, i - 1)

\* Whether a thread before event i of its program can take the step, the
\* other thread holding `others`: a lock is not reentrant and is taken by one
\* thread at a time.
CanStep(program, i, others) ==
    /\ i <= Len(program)
    /\ program[i].op = "lock" =>
          program[i].on \notin LocksHeld(program, i) \cup others

\* The configurations one step after those of `confs`; a configuration
\* << i, j >> is one thread before event i of p and one before event j of q.
Steps(p, q, confs) ==
    UNION { (IF CanStep(p, c[1], LocksHeld(q, c[2]))
             THEN { << c[1] + 1, c[2] >> } ELSE {})
            \cup (IF CanStep(q, c[2], LocksHeld(p, c[1]))
                  THEN { << c[1], c[2] + 1 >> } ELSE {}) : c \in confs }

\* The configurations that the interleavings of the two threads reach from
\* those of `confs`.
RECURSIVE Interleavings(_, _, _)
Interleavings(p, q, confs) ==
    IF confs = {} THEN {}
    ELSE confs \cup Interleavings(p, q, Steps(p, q, confs))

\* Whether some interleaving of the two threads ends with a thread that
\* waits for ever.
Deadlocks(p, q) ==
    \E c \in Interleavings(p, q, { << 1, 1 >> }) :
        /\ c[1] <= Len(p) \/ c[2] <= Len(q)
        /\ Steps(p, q, { c }) = {}

\* C24: handle_mapping never holds the lock of a map state while it calls
\* the HAL map_buffer, and never holds the lock of the kind trackers and the
\* lock of a map state at the same time: each lock is taken with nothing held
\* and released before the next blocking step (a lock or the HAL call), an
\* iteration ends with nothing held, and no interleaving with a thread that
\* takes the lock of a map state on the unmap path deadlocks.
C24_MapStateLockNotHeldAcrossHal ==
    LET programs(hal_fails) ==
            LET its == Iterations(hal_fails) IN
            { handle_mapping_one_locks(its[n].before, its[n].buffer, hal_fails) :
                n \in DOMAIN its }
    IN  \A p \in UNION { programs(hal_fails) : hal_fails \in HalFailures } :
                /\ \A k \in DOMAIN p :
                      \/ p[k].op = "lock"
                      \/ p[k] = [ op |-> "call", on |-> "map_buffer" ]
                      => LocksHeld(p, k) = {}
                /\ \A k \in 1..(Len(p) + 1) :
                      "trackers" \in LocksHeld(p, k) => LocksHeld(p, k) = { "trackers" }
                /\ LocksHeld(p, Len(p) + 1) = {}
                /\ \A b \in Buffers :
                      ~Deadlocks(p, buffer_unmap_locks(b))

\* An iteration finds a buffer waiting for a range that is not empty: it
\* takes and releases the lock of the kind trackers, then the lock of the map
\* state, calls the HAL with nothing held, and locks the map state again to
\* make it Active.
C24_Witness ==
    /\ ready_to_map # <<>>
    /\ LET it == Iterations({})[1]
           p == handle_mapping_one_locks(it.before, it.buffer, {})
       IN  /\ StateBefore(it).tag = "Waiting"
           /\ StateAfter(it).tag = "Active"
           /\ HalCalled(it) = << it.buffer >>
           /\ \E k \in DOMAIN p :
                 /\ p[k] = [ op |-> "call", on |-> "map_buffer" ]
                 /\ LocksHeld(p, k) = {}
                 /\ p[k + 1] = [ op |-> "lock", on |-> it.buffer ]
                 /\ p[k - 1] = [ op |-> "unlock", on |-> it.buffer ]

----------------------------------------------------------------------------
\* The steps of triage_suspected in the order of its chain of calls, and for
\* each the kind it hands to triage_resources ("" for a step that does not
\* call it).
triage_suspected_step(st, n) ==
    CASE n = 1 -> triage_suspected_render_bundles(st)
      [] n = 2 -> triage_suspected_compute_pipelines(st)
      [] n = 3 -> triage_suspected_render_pipelines(st)
      [] n = 4 -> triage_suspected_bind_groups(st)
      [] n = 5 -> triage_suspected_pipeline_layouts(st)
      [] n = 6 -> triage_suspected_bind_group_layouts(st)
      [] n = 7 -> triage_suspected_query_sets(st)
      [] n = 8 -> triage_suspected_samplers(st)
      [] n = 9 -> triage_suspected_staging_buffers(st)
      [] n = 10 -> triage_suspected_texture_views(st)
      [] n = 11 -> triage_suspected_textures(st)
      [] n = 12 -> triage_suspected_buffers(st)
      [] n = 13 -> triage_suspected_destroyed_buffers(st)
      [] n = 14 -> triage_suspected_destroyed_textures(st)

StepKind ==
    << "render_bundles", "compute_pipelines", "render_pipelines",
       "bind_groups", "", "", "query_sets", "samplers", "", "texture_views",
       "textures", "buffers", "", "" >>

\* The states of a triage_suspected call: the one before each step from
\* step n on, and the one after the last.
RECURSIVE triage_suspected_stages(_, _)
triage_suspected_stages(st, n) ==
    IF n > Len(StepKind) THEN << st >>
    ELSE << st >> \o triage_suspected_stages(triage_suspected_step(st, n), n + 1)

\* The calls of remove_abandoned made by the retain of triage_resources over
\* the entries `queue` of a map, one entry after the other, with the answer
\* of each.
RECURSIVE retain_calls(_, _)
retain_calls(world, queue) ==
    IF queue = <<>> THEN <<>>
    ELSE LET answer == remove_abandoned(world, Head(queue)) IN
         << [ index |-> Head(queue), is_removed |-> answer.is_removed ] >>
             \o retain_calls(answer.world, Tail(queue))

\* C25: during one triage_suspected call, for each kind handled by
\* triage_resources, remove_abandoned is called exactly once for every
\* resource that is in suspected_resources of that kind when its step runs
\* (those enqueued by earlier steps of the call included) and for no other;
\* the resource stays in suspected_resources, after the step and at the end of
\* the call, if and only if the answer was false; and when the answer was
\* true and no active submission has its submission index, no
\* suspected_resources map and no last_resources holds it at the end of the
\* call and its kind tracker has let it go.
C25_EachSuspectAskedOnce ==
    \A stages \in { triage_suspected_stages([ self |-> Self, world |-> World ], 1) } :
    /\ stages[Len(stages)] = triage_suspected(Self, World)
    /\ \A n \in DOMAIN StepKind :
          StepKind[n] # "" =>
            LET kind == StepKind[n]
                before == stages[n]
                after == stages[n + 1]
                final == stages[Len(stages)]
                resources_map == before.self.suspected_resources[kind]
            IN
            \A calls \in { retain_calls(before.world, SetToSeq(resources_map)) } :
            /\ Len(calls) = Cardinality(resources_map)
            /\ \A r \in resources_map :
                  Cardinality({ j \in DOMAIN calls : calls[j].index = r }) = 1
            /\ { calls[j].index : j \in { i \in DOMAIN calls : calls[i].is_removed } }
                  = triage_resources(before.self, before.world, kind).removed_resources
            /\ \A j \in DOMAIN calls :
                  LET r == calls[j].index IN
                  /\ r \in after.self.suspected_resources[kind]
                        <=> ~calls[j].is_removed
                  /\ r \in final.self.suspected_resources[kind]
                        <=> ~calls[j].is_removed
                  /\ /\ calls[j].is_removed
                     /\ ~InFlight(submission_index[r])
                     => /\ \A k \in Kinds : r \notin final.self.suspected_resources[k]
                        /\ \A p \in DOMAIN final.self.active, k \in Kinds :
                              r \notin final.self.active[p].last_resources[k]
                        /\ r \notin final.world.tracked

\* A render bundle is suspected, abandoned and not in flight, and its bind
\* group is held by the user and not suspected: the call asks about the
\* bundle once and holds it nowhere afterwards, and asks once about the bind
\* group that the first step enqueued, which stays suspected.
C25_Witness ==
    /\ "rb1" \in suspected_resources.render_bundles
    /\ remove_abandoned(World, "rb1").is_removed
    /\ ~InFlight(submission_index["rb1"])
    /\ "bg1" \in user_holds
    /\ "bg1" \notin suspected_resources.bind_groups
    /\ LET stages == triage_suspected_stages([ self |-> Self, world |-> World ], 1)
           calls == retain_calls(stages[4].world,
                                 SetToSeq(stages[4].self.suspected_resources.bind_groups))
       IN  /\ calls = << [ index |-> "bg1", is_removed |-> FALSE ] >>
           /\ "bg1" \in stages[15].self.suspected_resources.bind_groups
           /\ \A k \in Kinds : "rb1" \notin stages[15].self.suspected_resources[k]
           /\ "rb1" \notin stages[15].world.tracked

----------------------------------------------------------------------------
\* C26: handle_mapping changes only ready_to_map, which it leaves empty, and
\* the map states of the buffers it drained: `active` (indices,
\* last_resources, mapped lists, closures), the tracker's `mapped` list,
\* suspected_resources, future_suspected_* and work_done_closures are as
\* before the call, whether the HAL mapping succeeds or fails; outside the
\* tracker only the buffer tracker changes, which lets go of the buffers it
\* answered abandoned.
C26_HandleMappingFrame ==
    \A hal_fails \in HalFailures :
    \A h \in { handle_mapping(Self, World, hal_fails) } :
        /\ h.self.ready_to_map = <<>>
        /\ h.self.active = active
        /\ h.self.mapped = mapped
        /\ h.self.suspected_resources = suspected_resources
        /\ h.self.future_suspected_buffers = future_suspected_buffers
        /\ h.self.future_suspected_textures = future_suspected_textures
        /\ h.self.work_done_closures = work_done_closures
        /\ h.self = [ Self EXCEPT !.ready_to_map = <<>> ]
        /\ \A b \in Buffers \ Range(ready_to_map) :
              h.world.map_state[b] = map_state[b]
        /\ h.world = [ World EXCEPT !.map_state = h.world.map_state,
                                    !.tracked = @ \ Range(h.abandoned) ]

\* A buffer of ready_to_map waits for a range that is not empty while a
\* submission is active: the call that maps it and the call in which the HAL
\* fails both change its map state and leave the submission as it is.
C26_Witness ==
    /\ active # <<>>
    /\ \E b \in Range(ready_to_map) :
          /\ map_state[b].tag = "Waiting"
          /\ LET ok == handle_mapping(Self, World, {})
                 failed == handle_mapping(Self, World, {b})
             IN  /\ ok.world.map_state[b].tag = "Active"
                 /\ ok.pending_callbacks # <<>>
                 /\ failed.hal_calls = << b >>
                 /\ failed.world.map_state[b] = Idle
                 /\ ok.self.active = active
                 /\ failed.self.active = active

----------------------------------------------------------------------------
\* The step lands the encoder `e` of the submission `a` if and only if it is
\* a triage_submissions whose last_done reaches the index of `a`, and then
\* the submission leaves `active` with its last_resources in the same step.
LandedWhenDone(a, e) ==
    LET done == \E last_done \in a.index..active_submission_index :
                    TriageSubmissionsAt(last_done)
    IN  /\ landed'[e] # landed[e] => done
        /\ done => /\ landed'[e] = 1
                   /\ \A j \in DOMAIN active' : active'[j].index # a.index

\* C27: an encoder handed to track_submission with index i is landed and
\* released to the command allocator exactly once, by the first
\* triage_submissions call with last_done >= i, and never while its
\* submission has an index > last_done; the temporary resources handed to
\* the same track_submission call stay in the last_resources of the
\* submission until the same step.
C27_EncoderLandedOnceWhenDone ==
    /\ [](\A e \in DOMAIN landed :
            /\ landed[e] <= 1
            /\ landed[e] = 0 <=>
                  \E i \in DOMAIN active : e \in Range(active[i].encoders))
    /\ [][ \A i \in DOMAIN active :
             /\ \A e \in Range(active[i].encoders) :
                   LandedWhenDone(active[i], e)
             /\ KeptUntilDone(active[i]) ]_vars

\* The submission tracked with the staging buffer of a pending write has
\* completed: its encoder has landed once and nothing holds the staging
\* buffer, while the encoder of a later submission, not reached by last_done,
\* has not landed.
C27_Witness ==
    /\ Len(active) = 1
    /\ \E e \in DOMAIN landed :
          /\ landed[e] = 1
          /\ e < active[1].index
    /\ landed[active[1].index] = 0
    /\ "sb1" \notin user_holds
    /\ \A i \in DOMAIN active : "sb1" \notin active[i].last_resources.staging_buffers

----------------------------------------------------------------------------
\* C28: entrainment reaches textures through texture views: if a texture T
\* is used only by a texture view TV (no other resource uses it) and a
\* triage_suspected call finds TV abandoned, then T is in
\* suspected_resources.textures when the textures step of that call runs.
C28_TextureEntrainedByView ==
    \A stages \in { triage_suspected_stages([ self |-> Self, world |-> World ], 1) } :
    \A TV \in TextureViews, T \in Textures :
        /\ T \in tracked
        /\ { r \in Resources : T \in used[r] } = { TV }
        /\ TV \in triage_resources(stages[10].self, stages[10].world,
                                   "texture_views").removed_resources
        => T \in stages[11].self.suspected_resources.textures

----------------------------------------------------------------------------
\* The number of buffer references a tracker holds for map requests: those of
\* `mapped`, of the mapped lists of the active submissions and of
\* ready_to_map.
BufferReferences(self) ==
    Len(self.mapped)
        + Len(Flatten([ i \in DOMAIN self.active |-> self.active[i].mapped ]))
        + Len(self.ready_to_map)

\* C29: map requests are conserved until handled: the number of buffer
\* references held in `mapped`, in the mapped lists of the active submissions
\* and in ready_to_map grows by one in each map() call, is unchanged by
\* track_submission, post_submit, add_work_done_closure,
\* schedule_resource_destruction, triage_suspected, triage_mapped and
\* triage_submissions (the mapped buffers of the completed submissions all
\* move to the end of ready_to_map, in order), and is reduced by
\* handle_mapping only, which takes off the entries of ready_to_map.
C29_MapRequestsConserved ==
    LET total == BufferReferences(Self) IN
    /\ \A b \in Buffers :
          /\ BufferReferences(map(Self, b)) = total + 1
          /\ map(Self, b).mapped = Append(mapped, b)
    /\ \A index \in 1..(MaxSubmissions + 1), temps \in StagingTemps :
          BufferReferences(track_submission(Self, index, temps, << index >>)) = total
    /\ BufferReferences(post_submit(Self)) = total
    /\ \A closure \in 1..MaxClosures :
          BufferReferences(add_work_done_closure(Self, closure)) = total
    /\ \A temp_resource \in AllTemps, index \in 0..MaxSubmissions :
          BufferReferences(schedule_resource_destruction(Self, temp_resource, index))
              = total
    /\ BufferReferences(triage_suspected(Self, World).self) = total
    /\ BufferReferences(triage_mapped(Self, World)) = total
    /\ \A last_done \in 0..MaxSubmissions :
          \A t \in { triage_submissions(Self, last_done) } :
              /\ BufferReferences(t.self) = total
              /\ t.self.mapped = mapped
              /\ t.self.ready_to_map =
                    ready_to_map
                        \o Flatten([ i \in 1..done_count(Self, last_done) |->
                                        active[i].mapped ])
    /\ \A hal_fails \in HalFailures :
          BufferReferences(handle_mapping(Self, World, hal_fails).self)
              = total - Len(ready_to_map)

\* A request waits in `mapped` and one in the mapped list of the active
\* submission: a triage_submissions that completes the submission moves the
\* buffer of the submission to ready_to_map, and the two requests are still
\* held; a handle_mapping after it takes one off.
C29_Witness ==
    /\ Len(mapped) = 1 /\ ready_to_map = <<>> /\ Len(active) = 1
    /\ Len(active[1].mapped) = 1
    /\ LET t == triage_submissions(Self, active[1].index) IN
         /\ t.self.active = <<>>
         /\ t.self.ready_to_map = active[1].mapped
         /\ BufferReferences(t.self) = 2
         /\ BufferReferences(handle_mapping(t.self, World, {}).self) = 1

----------------------------------------------------------------------------
\* SpecLive: submissions, map requests and unmaps of one buffer and work-done
\* closures, for up to MaxEvents inputs, with a HAL that may fail to map and
\* a maintenance that keeps running: triage_mapped
\* and handle_mapping are called again and again, and so is triage_submissions
\* with a last_done that has reached the index of the last submission made
\* (the GPU completes what is submitted to it).
NextLive ==
    \/ Budget /\ Submit({"b1"}, NoTemps)
    \/ Budget /\ MapAsync({"b1"}, MapRange, HostModes)
    \/ Unmap
    \/ Budget /\ AddWorkDoneClosure
    \/ TriageMapped
    \/ TriageSubmissions
    \/ HandleMapping({"b1"})

SpecLive ==
    /\ Init
    /\ [][NextLive]_vars
    /\ WF_vars(TriageMapped)
    /\ WF_vars(TriageSubmissionsAt(active_submission_index))
    /\ WF_vars(HandleMapping({"b1"}))

\* Nothing waits in the tracker: no buffer is in `mapped`, in a mapped list
\* of an active submission or in ready_to_map, no submission is in `active`,
\* and every registered work-done closure has been returned.
Handled ==
    /\ \A b \in Buffers : Occurrences(b) = 0
    /\ active = <<>>
    /\ \A id \in Closures : delivered[id] > 0

\* C30: with the maintenance running and last_done reaching every tracked
\* submission index, every buffer passed to map() is eventually drained from
\* ready_to_map by handle_mapping, every active submission is eventually
\* removed from `active`, and every registered work-done closure is
\* eventually returned; no buffer stays for ever in `mapped` or in a mapped
\* list of an active submission.  Stated as: whatever has been requested,
\* submitted or registered so far, a state follows in which nothing waits.
C30_EverythingEventuallyHandled == []<>Handled

\* A submission was made, a buffer was requested and a closure registered,
\* and the maintenance has handled them all: the buffer is mapped and in no
\* list, its callback and the closure were returned, `active` is empty.
C30_Witness ==
    /\ active_submission_index > 0
    /\ active = <<>>
    /\ \A b \in Buffers : Occurrences(b) = 0
    /\ \E b \in Buffers : map_state[b].tag = "Active"
    /\ \E id \in MapRequests : delivered[id] = 1
    /\ \E id \in Closures : delivered[id] = 1

====
